---------------------------- MODULE Spec2Model ----------------------------
(***************************************************************************)
(* Scan-acquire-encode engine of the force sensing grid firmware.          *)
(*                                                                         *)
(* Two builds of the engine live in the repository and both are modelled,  *)
(* selected by the variable "variant":                                     *)
(*   MUX12  Core/Src/grid_scan.c + grid_mux.c: 40x40 grid, CD4051 muxes    *)
(*          on a shared S0/S1/S2 select bus, internal 12-bit ADC;          *)
(*   ADS24  unnamed/part_000 (grid_scan.c) + ads1220.c: rows on GPIOC,     *)
(*          columns on a bank of ADS1220 24-bit converters.                *)
(*                                                                         *)
(* Every HAL call (a pin write, a conversion, an SPI transfer, a delay) is *)
(* one step.  pc is the call stack: its head is the statement about to     *)
(* execute, the rest are return addresses; pc = <<>> is the caller (main)  *)
(* between two calls of the public API.                                    *)
(***************************************************************************)
EXTENDS Integers, Sequences, FiniteSets, TLC

VARIABLES
    variant,        \* which build runs: "MUX12" or "ADS24"
    booted,         \* GRID_Init has been called at least once
    pc,             \* call stack of statement labels
    L,              \* locals and arguments of the running functions
    g_GridData,     \* GridData_t: data, baseline, state, frameCount, lastScanTimeMs
    s_IsCalibrated, \* static uint8_t s_IsCalibrated
    s_TxBuffer,     \* static uint8_t s_TxBuffer[PACKET_TOTAL_SIZE]
    pins,           \* MUX12 GPIO outputs: rowDrive, rowEn, colEn, sel
    ads,            \* ADS24: row GPIOs, chip selects, g_ADS1220[], the converters
    env,            \* the pressure pattern on the physical grid
    uart,           \* what the last HAL_UART_Transmit was handed
    txOob,          \* a transmit-buffer write fell outside the buffer
    rawRead,        \* raw reading acquired for (row, col) by the last scan
    calRead,        \* raw reading acquired for (row, col) by the last calibration sweep
    calSum,         \* the running calibration: per cell the sum and the count of the raw
                    \* readings so far, and the baseline found on entry
    settled,        \* has a settling delay passed since the last row selection (.row)
                    \* and since the last column or channel selection (.col)
    retval,         \* value returned by the last GRID_ReadCell
    fault           \* the CPU took a HardFault (wild GPIO write)

vars == << variant, booted, pc, L, g_GridData, s_IsCalibrated, s_TxBuffer,
           pins, ads, env, uart, txOob, rawRead, calRead, calSum, settled, retval, fault >>


-----------------------------------------------------------------------------
(* Model bounds.  The grid and the multiplexer bank are scaled down; the   *)
(* source values are given beside each.                                    *)

\* grid_mux.h:64  #define GRID_NUM_ROWS 40U
GRID_NUM_ROWS == 3
\* grid_mux.h:65  #define GRID_NUM_COLS 40U
GRID_NUM_COLS == 3
\* grid_mux.h:74  #define MUX_CHANNELS_PER_CHIP 8U (must stay <= 8: 3 select bits)
MUX_CHANNELS_PER_CHIP == 2
\* grid_mux.h:75  #define MUX_ROW_COUNT 5U
MUX_ROW_COUNT == 2
\* grid_mux.h:76  #define MUX_COL_COUNT 5U
MUX_COL_COUNT == 2
\* grid_mux.c: ColMuxEnablePins[MUX_COL_COUNT] has only 3 initialisers
\* (grid_scan.h:349-353); the remaining entries are zero: { NULL, 0 }.
COL_MUX_INITIALISERS == 1
\* grid_scan.h:46  #define GRID_NUM_ROWS 12U (ADS1220 build)
ADS_GRID_NUM_ROWS == 2
\* part_006:47  #define ADS1220_NUM_CHIPS 5U
ADS1220_NUM_CHIPS == 2
\* part_006:48  #define ADS1220_CHANNELS 4U
ADS1220_CHANNELS == 2
\* cap on g_GridData.frameCount (a uint32_t in the source)
MaxFrames == 2
\* largest value HAL_GetTick() returns (a free-running uint32_t in the source)
MaxTick == 1
\* width in bits of DWT_CYCCNT (32 in the source)
CYCCNT_BITS == 4
\* SystemCoreClock / 1000000 (72 in the source)
TICKS_PER_US == 3

-----------------------------------------------------------------------------
(* Program constants, at their source values.                              *)

SCAN_ADC_SAMPLES == 4
CALIBRATION_SAMPLES_MUX == 8
CALIBRATION_SAMPLES_ADS == 4
ADC_MAX_VALUE_12 == 4095
ADC_NOISE_THRESHOLD_12 == 50
ADC_MAX_VALUE_24 == 16777215
ADC_NOISE_THRESHOLD_24 == 5000
ADC_SCALE_SHIFT == 8
PACKET_SYNC_BYTE_1 == 170
PACKET_SYNC_BYTE_2 == 85
PACKET_HEADER_SIZE == 2
PACKET_FOOTER_SIZE == 4
ADS1220_CMD_RESET == 6
ADS1220_CMD_START == 8
ADS1220_CMD_RDATA == 16
ADS1220_MUX_AIN0_AVSS == 128
ADS1220_PGA_BYPASS == 1
ADS1220_REG1_INIT == 208
ADS1220_VREF_AVDD == 128
ADS1220_CS_ASSIGNED == 8
CR == 13
LF == 10

\* frame size of the ADS1220 build at its source dimensions (grid_scan.h:46-47),
\* used where the length of the packet matters
FULL_NUM_ROWS == 12
FULL_NUM_COLS == 20

Variants == {"MUX12", "ADS24"}

\* the 24-bit build with a frame of the source's size
FullFrame == "ADS24_12x20"

ADS1220_TOTAL_CHANNELS == ADS1220_NUM_CHIPS * ADS1220_CHANNELS

\* grid_scan.h:47: GRID_NUM_COLS 20 = 5 chips x 4 channels
ADS_GRID_NUM_COLS == ADS1220_NUM_CHIPS * ADS1220_CHANNELS

NumRows(v) ==
    CASE v = "MUX12" -> GRID_NUM_ROWS
      [] v = "ADS24" -> ADS_GRID_NUM_ROWS
      [] OTHER       -> FULL_NUM_ROWS
NumCols(v) ==
    CASE v = "MUX12" -> GRID_NUM_COLS
      [] v = "ADS24" -> ADS_GRID_NUM_COLS
      [] OTHER       -> FULL_NUM_COLS
Rows(v) == 0 .. (NumRows(v) - 1)
Cols(v) == 0 .. (NumCols(v) - 1)
Cells(v) == Rows(v) \X Cols(v)

GRID_TOTAL_NODES(v) == NumRows(v) * NumCols(v)
PACKET_PAYLOAD_SIZE(v) == GRID_TOTAL_NODES(v) * 2
\* faulty variant: the footer left out of the size
PACKET_TOTAL_SIZE_NoFooter(v) == PACKET_HEADER_SIZE + PACKET_PAYLOAD_SIZE(v)

PACKET_TOTAL_SIZE(v) == PACKET_HEADER_SIZE + PACKET_PAYLOAD_SIZE(v) + PACKET_FOOTER_SIZE

ADC_MAX_VALUE(v) == IF v = "MUX12" THEN ADC_MAX_VALUE_12 ELSE ADC_MAX_VALUE_24
ADC_NOISE_THRESHOLD(v) == IF v = "MUX12" THEN ADC_NOISE_THRESHOLD_12 ELSE ADC_NOISE_THRESHOLD_24
CALIBRATION_SAMPLES(v) == IF v = "MUX12" THEN CALIBRATION_SAMPLES_MUX ELSE CALIBRATION_SAMPLES_ADS

-----------------------------------------------------------------------------
(* Fixed-width arithmetic.                                                 *)

U8(x)  == x % 256
U16(x) == x % 65536
LowByte(x)  == x % 256          \* (uint8_t)(val & 0xFF)
HighByte(x) == (x \div 256) % 256   \* (uint8_t)(val >> 8) of a uint16_t
ShiftRight(x, n) == x \div (2 ^ n)

-----------------------------------------------------------------------------
(* The physical grid.  A pressure pattern fixes what every cell reads:     *)
(* "rest" is the untouched grid (full scale everywhere), "mixed" gives     *)
(* neighbouring cells different readings, from full scale down to zero.    *)
(* The pattern changes only between two API calls.                         *)

Envs == {"rest", "mixed"}

RawPattern(v) == IF v = "MUX12" THEN << 4095, 3000, 100, 0 >>
                 ELSE << 16777215, 12288000, 409600, 0 >>

CellRaw(v, e, r, c) ==
    IF e = "rest" THEN ADC_MAX_VALUE(v)
    ELSE RawPattern(v)[((r * NumCols(v) + c) % 4) + 1]

\* what the converter input reads while no single cell is routed to it
FloatRaw(v, e) == IF e = "rest" THEN ADC_MAX_VALUE(v) ELSE RawPattern(v)[2]

-----------------------------------------------------------------------------
(* Per-cell correction, GRID_ScanMatrix.                                   *)

\* faulty variant: an unsigned subtraction, which wraps when raw > baseline
SaturatingDiffWrap(base, raw) == (base - raw) % 65536

\* int32_t diff = (int32_t)baseline - (int32_t)raw; (diff > 0) ? diff : 0
SaturatingDiff(base, raw) ==
    LET diff == base - raw IN IF diff > 0 THEN diff ELSE 0

\* faulty variant: the inversion against 2^n instead of 2^n - 1
InvertOffByOne(v, raw) == ADC_MAX_VALUE(v) + 1 - raw

\* (raw < ADC_MAX_VALUE) ? (ADC_MAX_VALUE - raw) : 0
Invert(v, raw) == IF raw < ADC_MAX_VALUE(v) THEN ADC_MAX_VALUE(v) - raw ELSE 0

\* "pressure" is a uint16_t in the 12-bit engine and a uint32_t in the 24-bit one
Narrow(v, x) == IF v = "MUX12" THEN U16(x) ELSE x

\* faulty variant: no noise floor
NoiseFloorOff(v, p) == p

\* if (pressure < ADC_NOISE_THRESHOLD) pressure = 0;
NoiseFloor(v, p) == IF p < ADC_NOISE_THRESHOLD(v) THEN 0 ELSE p

\* faulty variant: the calibrated flag ignored, always direct inversion
CorrectedIgnoringFlag(v, raw, base, cal) == Narrow(v, Invert(v, raw))

Corrected(v, raw, base, cal) ==
    IF cal THEN Narrow(v, SaturatingDiff(base, raw)) ELSE Narrow(v, Invert(v, raw))

\* g_GridData.data[row][col] = pressure;                          (12-bit)
\* g_GridData.data[row][col] = (uint16_t)(pressure >> ADC_SCALE_SHIFT); (24-bit)
Stored(v, p) == IF v = "MUX12" THEN p ELSE U16(ShiftRight(p, ADC_SCALE_SHIFT))

\* faulty variant: the value shifted first and compared with the threshold after
CellValueShiftFirst(v, raw, base, cal) == NoiseFloor(v, Stored(v, Corrected(v, raw, base, cal)))

CellValue(v, raw, base, cal) == Stored(v, NoiseFloor(v, Corrected(v, raw, base, cal)))

\* baseline[row][col] += raw: a uint16_t element in the 12-bit engine, a
\* uint32_t one in the 24-bit engine (whose sums of four 24-bit readings stay
\* below 2^26, so that no reduction applies)
\* faulty variant: an accumulator no wider than one reading
AccumulateNarrow(v, acc, raw) == (acc + raw) % (ADC_MAX_VALUE(v) + 1)

Accumulate(v, acc, raw) == IF v = "MUX12" THEN U16(acc + raw) ELSE acc + raw

\* faulty variant: the sum of the sweeps kept as the baseline
AverageNone(v, acc) == acc

\* baseline[row][col] /= CALIBRATION_SAMPLES
Average(v, acc) == acc \div CALIBRATION_SAMPLES(v)

\* faulty variant: the baseline never subtracted, the reading always inverted
ReadCellValueUncalibrated(raw, base, cal) ==
    LET pressure == U16(Invert("MUX12", raw))
    IN  IF pressure < ADC_NOISE_THRESHOLD_12 THEN 0 ELSE pressure

\* GRID_ReadCell's own copy of the correction (12-bit engine only)
ReadCellValue(raw, base, cal) ==
    LET pressure == IF cal THEN U16(SaturatingDiff(base, raw))
                    ELSE U16(Invert("MUX12", raw))
    IN  IF pressure < ADC_NOISE_THRESHOLD_12 THEN 0 ELSE pressure

-----------------------------------------------------------------------------
(* Call stack.                                                             *)

At(l)        == ~fault /\ pc /= << >> /\ Head(pc) = l
Goto(l)      == pc' = << l >> \o Tail(pc)
Call(f, ret) == pc' = << f, ret >> \o Tail(pc)
Return       == pc' = Tail(pc)
InMain       == pc = << >> /\ ~fault

\* the locals of the running functions; written is the history of the indices
\* of colValues stored since the array of the current row came into scope,
\* samples the conversion results GRID_ReadADC has added up so far, elapsed
\* and sincePoll the ticks DWT_CYCCNT made since GRID_DelayUs read startTick
\* and since its loop last read the counter
L0 == [ row |-> 0, col |-> 0, scan |-> 0, arg |-> 0, chan |-> 0, muxIndex |-> 0,
        mi |-> 0, si |-> 0, sum |-> 0, raw |-> 0, idx |-> 0, checksum |-> 0,
        chip |-> 0, ch |-> 0, chipIndex |-> 0, reg |-> 0, value |-> 0, cmd |-> 0,
        colValues |-> [c \in 0 .. (ADS_GRID_NUM_COLS - 1) |-> 0],
        written |-> << >>, samples |-> << >>,
        us |-> 0, startTick |-> 0, delayTicks |-> 0, elapsed |-> 0, sincePoll |-> 0 ]

-----------------------------------------------------------------------------
(* GPIO of the multiplexed build.  Enable pins are active low.             *)

RowMuxes == 0 .. (MUX_ROW_COUNT - 1)
ColMuxes == 0 .. (MUX_COL_COUNT - 1)

\* ColMuxEnablePins[i].port is NULL for the entries without an initialiser
ColMuxPinConfigured(i) == i < COL_MUX_INITIALISERS

SelValue(p) == p.sel[0] + 2 * p.sel[1] + 4 * p.sel[2]

EnabledRowMuxes(p) == { m \in RowMuxes : p.rowEn[m] = 0 }
EnabledColMuxes(p) == { m \in ColMuxes : p.colEn[m] = 0 }

\* rows that carry the drive voltage, columns routed to the ADC input
DrivenRows(p) ==
    IF p.rowDrive = 0 THEN {}
    ELSE { r \in Rows("MUX12") :
             \E m \in EnabledRowMuxes(p) : r = m * MUX_CHANNELS_PER_CHIP + SelValue(p) }
RoutedCols(p) ==
    { c \in Cols("MUX12") :
        \E m \in EnabledColMuxes(p) : c = m * MUX_CHANNELS_PER_CHIP + SelValue(p) }

\* HAL_ADC_GetValue: the cell the pins address, if they address exactly one
SampleMux(p, e) ==
    IF Cardinality(DrivenRows(p)) = 1 /\ Cardinality(RoutedCols(p)) = 1
    THEN LET r == CHOOSE x \in DrivenRows(p) : TRUE
             c == CHOOSE x \in RoutedCols(p) : TRUE
         IN  CellRaw("MUX12", e, r, c)
    ELSE FloatRaw("MUX12", e)

\* the output registers at reset, and the cycle counter DWT_CYCCNT
PinsReset == [ rowDrive |-> 0,
               rowEn |-> [m \in RowMuxes |-> 0],
               colEn |-> [m \in ColMuxes |-> IF ColMuxPinConfigured(m) THEN 0 ELSE 1],
               sel   |-> [b \in 0 .. 2 |-> 0],
               cyccnt |-> 0 ]

-----------------------------------------------------------------------------
(* Hardware of the ADS1220 build: row GPIOs (active high), one chip select *)
(* per converter (active low) on a shared SPI bus.                         *)

Chips == 0 .. (ADS1220_NUM_CHIPS - 1)
Regs  == 0 .. 3

\* dev is what each chip holds: its register 0, the registers written and
\* whether it was reset, its last conversion result, and (armed) whether
\* register 0 was written since its last conversion; oob is the set of stores
\* made behind the end of g_ADS1220: << field, element index >>
AdsReset == [ rows |-> [r \in Rows("ADS24") |-> 0],
              cs   |-> [i \in Chips |-> 0],
              config_reg |-> [i \in Chips |-> [g \in Regs |-> 0]],
              dev  |-> [i \in Chips |-> [reg0 |-> 0, cfg |-> {}, rst |-> FALSE, conv |-> 0,
                                      armed |-> FALSE]],
              oob  |-> {} ]

\* chips that listen on the SPI bus
Selected(a) == { i \in Chips : a.cs[i] = 0 }

\* the analog input of chip i while its conversion runs: the cell at the one
\* driven row and the column of the selected single-ended channel
AdsSample(a, i, e) ==
    LET high == { r \in Rows("ADS24") : a.rows[r] = 1 }
        code == a.dev[i].reg0 \div 16
    IN  IF Cardinality(high) = 1 /\ code \in 8 .. 11 /\ code - 8 < ADS1220_CHANNELS
        THEN CellRaw("ADS24", e, CHOOSE r \in high : TRUE, i * ADS1220_CHANNELS + (code - 8))
        ELSE FloatRaw("ADS24", e)

\* a command byte reaches every selected chip
SpiCommand(a, cmd, e) ==
    [a EXCEPT !.dev = [i \in Chips |->
        IF i \notin Selected(a) THEN a.dev[i]
        ELSE IF cmd = ADS1220_CMD_RESET
             THEN [reg0 |-> 0, cfg |-> {}, rst |-> TRUE, conv |-> 0, armed |-> FALSE]
        ELSE IF cmd = ADS1220_CMD_START
             THEN [a.dev[i] EXCEPT !.conv = AdsSample(a, i, e), !.armed = FALSE]
        ELSE a.dev[i]]]

\* WREG of one register reaches every selected chip
SpiWreg(a, reg, value) ==
    [a EXCEPT !.dev = [i \in Chips |->
        IF i \notin Selected(a) THEN a.dev[i]
        ELSE [a.dev[i] EXCEPT !.cfg = a.dev[i].cfg \cup {reg},
                              !.reg0 = IF reg = 0 THEN value ELSE a.dev[i].reg0,
                              !.armed = (reg = 0 \/ a.dev[i].armed)]]]

\* RDATA: the three result bytes of the selected chip, MSB first
SpiRdata(a) ==
    IF Cardinality(Selected(a)) = 1
    THEN a.dev[CHOOSE i \in Selected(a) : TRUE].conv ELSE 0

-----------------------------------------------------------------------------
(* State at reset: statics are zero, GPIO output registers are zero.       *)

ZeroMatrix(v) == [cell \in Cells(v) |-> 0]

\* no selection is waiting for its delay
Settled == [ row |-> TRUE, col |-> TRUE ]

\* bookkeeping of a calibration: none running / entered with baseline b /
\* one more reading of a cell
CalSumZero(v) == [ sum |-> ZeroMatrix(v), n |-> ZeroMatrix(v), prior |-> ZeroMatrix(v) ]
CalSumEnter(v, b) == [ CalSumZero(v) EXCEPT !.prior = b ]
CalSumAdd(cs, cell, raw) == [ cs EXCEPT !.sum[cell] = @ + raw, !.n[cell] = @ + 1 ]

GridDataZero(v) == [ data |-> ZeroMatrix(v), baseline |-> ZeroMatrix(v),
                     state |-> "Idle", frameCount |-> 0, lastScanTimeMs |-> 0 ]

BufIndex(v) == 0 .. (PACKET_TOTAL_SIZE(v) - 1)

Init ==
    /\ variant \in Variants
    /\ booted = FALSE
    /\ pc = << >>
    /\ L = L0
    /\ g_GridData = GridDataZero(variant)
    /\ s_IsCalibrated = FALSE
    /\ s_TxBuffer = [i \in BufIndex(variant) |-> 0]
    /\ pins = PinsReset
    /\ ads = AdsReset
    /\ env = "rest"
    /\ uart = << >>
    /\ txOob = FALSE
    /\ rawRead = ZeroMatrix(variant)
    /\ calRead = ZeroMatrix(variant)
    /\ calSum = CalSumZero(variant)
    /\ settled = Settled
    /\ retval = 0
    /\ fault = FALSE

-----------------------------------------------------------------------------
(* grid_mux.c: the CD4051 driver.                                          *)

engineVars == << g_GridData, s_IsCalibrated, s_TxBuffer >>
ghostRest  == << uart, txOob, rawRead, calRead, calSum, retval >>
ghostVars  == << uart, txOob, rawRead, calRead, calSum, settled, retval >>
worldVars  == << variant, booted, env, ads >>

\* MUX_SetChannel: channel &= 0x07; write S0
MUX_SetChannel ==
    /\ At("MUX_SetChannel")
    /\ L' = [L EXCEPT !.chan = L.chan % 8]
    /\ pins' = [pins EXCEPT !.sel[0] = (L.chan % 8) % 2]
    /\ Goto("MUX_SetChannel_S1")
    /\ UNCHANGED << engineVars, ghostVars, worldVars, fault >>

\* write S1
MUX_SetChannel_S1 ==
    /\ At("MUX_SetChannel_S1")
    /\ pins' = [pins EXCEPT !.sel[1] = (L.chan \div 2) % 2]
    /\ Goto("MUX_SetChannel_S2")
    /\ UNCHANGED << L, engineVars, ghostVars, worldVars, fault >>

\* write S2 and return
MUX_SetChannel_S2 ==
    /\ At("MUX_SetChannel_S2")
    /\ pins' = [pins EXCEPT !.sel[2] = (L.chan \div 4) % 2]
    /\ L' = [L EXCEPT !.chan = 0]
    /\ Return
    /\ UNCHANGED << engineVars, ghostVars, worldVars, fault >>

\* faulty variant: the enable pins toggled instead of set HIGH
MUX_DisableAllRowMux_Toggle ==
    /\ At("MUX_DisableAllRowMux")
    /\ pins' = [pins EXCEPT !.rowEn[L.mi] = 1 - pins.rowEn[L.mi]]
    /\ IF L.mi + 1 < MUX_ROW_COUNT
       THEN L' = [L EXCEPT !.mi = L.mi + 1] /\ UNCHANGED pc
       ELSE L' = [L EXCEPT !.mi = 0] /\ Return
    /\ UNCHANGED << engineVars, ghostVars, worldVars, fault >>

\* MUX_DisableAllRowMux: one pass of the loop, enable pin i HIGH
MUX_DisableAllRowMux ==
    /\ At("MUX_DisableAllRowMux")
    /\ pins' = [pins EXCEPT !.rowEn[L.mi] = 1]
    /\ IF L.mi + 1 < MUX_ROW_COUNT
       THEN L' = [L EXCEPT !.mi = L.mi + 1] /\ UNCHANGED pc
       ELSE L' = [L EXCEPT !.mi = 0] /\ Return
    /\ UNCHANGED << engineVars, ghostVars, worldVars, fault >>

\* MUX_DisableAllColMux: one pass of the loop.  HAL_GPIO_WritePin on an
\* entry without initialiser stores through a NULL port with pin mask 0:
\* undefined behaviour, here either without effect on any pin or a fault.
MUX_DisableAllColMux ==
    /\ At("MUX_DisableAllColMux")
    /\ pins' = IF ColMuxPinConfigured(L.mi)
               THEN [pins EXCEPT !.colEn[L.mi] = 1] ELSE pins
    /\ IF L.mi + 1 < MUX_COL_COUNT
       THEN L' = [L EXCEPT !.mi = L.mi + 1] /\ UNCHANGED pc
       ELSE L' = [L EXCEPT !.mi = 0] /\ Return
    /\ UNCHANGED << engineVars, ghostVars, worldVars, fault >>

\* the same write, when the store through the NULL port faults
MUX_DisableAllColMux_Fault ==
    /\ At("MUX_DisableAllColMux")
    /\ ~ColMuxPinConfigured(L.mi)
    /\ fault' = TRUE
    /\ UNCHANGED << pc, L, pins, engineVars, ghostVars, worldVars >>

\* faulty variant: the selected row mux enabled without disabling the others
MUX_EnableRowMux_NoDisable ==
    /\ At("MUX_EnableRowMux")
    /\ IF L.muxIndex >= MUX_ROW_COUNT
       THEN L' = [L EXCEPT !.muxIndex = 0] /\ Return
       ELSE UNCHANGED L /\ Goto("MUX_EnableRowMux_Write")
    /\ UNCHANGED << pins, engineVars, ghostVars, worldVars, fault >>

\* MUX_EnableRowMux: index check, then "first disable all row muxes"
MUX_EnableRowMux ==
    /\ At("MUX_EnableRowMux")
    /\ IF L.muxIndex >= MUX_ROW_COUNT
       THEN L' = [L EXCEPT !.muxIndex = 0] /\ Return
       ELSE UNCHANGED L /\ Call("MUX_DisableAllRowMux", "MUX_EnableRowMux_Write")
    /\ UNCHANGED << pins, engineVars, ghostVars, worldVars, fault >>

\* enable pin of the selected row mux LOW
MUX_EnableRowMux_Write ==
    /\ At("MUX_EnableRowMux_Write")
    /\ pins' = [pins EXCEPT !.rowEn[L.muxIndex] = 0]
    /\ L' = [L EXCEPT !.muxIndex = 0]
    /\ Return
    /\ UNCHANGED << engineVars, ghostVars, worldVars, fault >>

MUX_EnableColMux ==
    /\ At("MUX_EnableColMux")
    /\ IF L.muxIndex >= MUX_COL_COUNT
       THEN L' = [L EXCEPT !.muxIndex = 0] /\ Return
       ELSE UNCHANGED L /\ Call("MUX_DisableAllColMux", "MUX_EnableColMux_Write")
    /\ UNCHANGED << pins, engineVars, ghostVars, worldVars, fault >>

\* enable pin of the selected column mux LOW; for an entry without
\* initialiser the write goes through a NULL port with pin mask 0
MUX_EnableColMux_Write ==
    /\ At("MUX_EnableColMux_Write")
    /\ pins' = IF ColMuxPinConfigured(L.muxIndex)
               THEN [pins EXCEPT !.colEn[L.muxIndex] = 0] ELSE pins
    /\ L' = [L EXCEPT !.muxIndex = 0]
    /\ Return
    /\ UNCHANGED << engineVars, ghostVars, worldVars, fault >>

\* the same write, when the store through the NULL port faults
MUX_EnableColMux_Fault ==
    /\ At("MUX_EnableColMux_Write")
    /\ ~ColMuxPinConfigured(L.muxIndex)
    /\ fault' = TRUE
    /\ UNCHANGED << pc, L, pins, engineVars, ghostVars, worldVars >>

\* faulty variant: no range check on the row
MUX_SelectRow_NoCheck ==
    /\ At("MUX_SelectRow")
    /\ L' = [L EXCEPT !.arg = 0,
                      !.muxIndex = L.arg \div MUX_CHANNELS_PER_CHIP,
                      !.chan = L.arg % MUX_CHANNELS_PER_CHIP]
    /\ pc' = << "MUX_SetChannel", "MUX_EnableRowMux" >> \o Tail(pc)
    /\ settled' = [settled EXCEPT !.row = FALSE]
    /\ UNCHANGED << pins, engineVars, ghostRest, worldVars, fault >>

\* MUX_SelectRow: range check, muxIndex = row / 8, channel = row % 8,
\* MUX_SetChannel(channel) then MUX_EnableRowMux(muxIndex)
MUX_SelectRow ==
    /\ At("MUX_SelectRow")
    /\ IF L.arg >= GRID_NUM_ROWS
       THEN L' = [L EXCEPT !.arg = 0] /\ Return
       ELSE /\ L' = [L EXCEPT !.arg = 0,
                              !.muxIndex = L.arg \div MUX_CHANNELS_PER_CHIP,
                              !.chan = L.arg % MUX_CHANNELS_PER_CHIP]
            /\ pc' = << "MUX_SetChannel", "MUX_EnableRowMux" >> \o Tail(pc)
    /\ settled' = IF L.arg >= GRID_NUM_ROWS THEN settled ELSE [settled EXCEPT !.row = FALSE]
    /\ UNCHANGED << pins, engineVars, ghostRest, worldVars, fault >>

MUX_SelectCol ==
    /\ At("MUX_SelectCol")
    /\ IF L.arg >= GRID_NUM_COLS
       THEN L' = [L EXCEPT !.arg = 0] /\ Return
       ELSE /\ L' = [L EXCEPT !.arg = 0,
                              !.muxIndex = L.arg \div MUX_CHANNELS_PER_CHIP,
                              !.chan = L.arg % MUX_CHANNELS_PER_CHIP]
            /\ pc' = << "MUX_SetChannel", "MUX_EnableColMux" >> \o Tail(pc)
    /\ settled' = IF L.arg >= GRID_NUM_COLS THEN settled ELSE [settled EXCEPT !.col = FALSE]
    /\ UNCHANGED << pins, engineVars, ghostRest, worldVars, fault >>

\* MUX_Init: disable all row muxes
MUX_Init ==
    /\ At("MUX_Init")
    /\ Call("MUX_DisableAllRowMux", "MUX_Init_Col")
    /\ UNCHANGED << L, pins, engineVars, ghostVars, worldVars, fault >>

\* disable all column muxes
MUX_Init_Col ==
    /\ At("MUX_Init_Col")
    /\ Call("MUX_DisableAllColMux", "MUX_Init_Drive")
    /\ UNCHANGED << L, pins, engineVars, ghostVars, worldVars, fault >>

\* faulty variant: the select bus left as it was
MUX_Init_Drive_NoChannel ==
    /\ At("MUX_Init_Drive")
    /\ pins' = [pins EXCEPT !.rowDrive = 0]
    /\ Return
    /\ UNCHANGED << L, engineVars, ghostVars, worldVars, fault >>

\* row drive LOW, then MUX_SetChannel(0)
MUX_Init_Drive ==
    /\ At("MUX_Init_Drive")
    /\ pins' = [pins EXCEPT !.rowDrive = 0]
    /\ L' = [L EXCEPT !.chan = 0]
    /\ Goto("MUX_SetChannel")
    /\ UNCHANGED << engineVars, ghostVars, worldVars, fault >>

MuxDriver ==
    \/ MUX_SetChannel \/ MUX_SetChannel_S1 \/ MUX_SetChannel_S2
    \/ MUX_DisableAllRowMux \/ MUX_DisableAllColMux \/ MUX_DisableAllColMux_Fault
    \/ MUX_EnableRowMux \/ MUX_EnableRowMux_Write
    \/ MUX_EnableColMux \/ MUX_EnableColMux_Write \/ MUX_EnableColMux_Fault
    \/ MUX_SelectRow \/ MUX_SelectCol
    \/ MUX_Init \/ MUX_Init_Col \/ MUX_Init_Drive

-----------------------------------------------------------------------------
(* Core/Src/grid_scan.c: the 12-bit engine.                                *)

\* a store into s_TxBuffer; an index outside the array changes no element
BufPut(buf, i, b) == IF i \in DOMAIN buf THEN [buf EXCEPT ![i] = b] ELSE buf

\* faulty variant: the last conversion result returned instead of the mean
GRID_ReadADC_LastSample ==
    /\ At("GRID_ReadADC")
    /\ LET sum == L.sum + SampleMux(pins, env) IN
       IF L.si + 1 < SCAN_ADC_SAMPLES
       THEN /\ L' = [L EXCEPT !.sum = sum, !.si = L.si + 1,
                              !.samples = Append(L.samples, SampleMux(pins, env))]
            /\ UNCHANGED pc
       ELSE /\ L' = [L EXCEPT !.sum = 0, !.si = 0, !.samples = << >>,
                              !.raw = U16(SampleMux(pins, env))]
            /\ Return
    /\ UNCHANGED << pins, engineVars, ghostVars, worldVars, fault >>

\* GRID_ReadADC: one pass of the oversampling loop (start, poll, get, stop);
\* after the last pass, return (uint16_t)(sum / SCAN_ADC_SAMPLES)
GRID_ReadADC ==
    /\ At("GRID_ReadADC")
    /\ LET sum == L.sum + SampleMux(pins, env) IN
       IF L.si + 1 < SCAN_ADC_SAMPLES
       THEN /\ L' = [L EXCEPT !.sum = sum, !.si = L.si + 1,
                              !.samples = Append(L.samples, SampleMux(pins, env))]
            /\ UNCHANGED pc
       ELSE /\ L' = [L EXCEPT !.sum = 0, !.si = 0, !.samples = << >>,
                              !.raw = U16(sum \div SCAN_ADC_SAMPLES)]
            /\ Return
    /\ UNCHANGED << pins, engineVars, ghostVars, worldVars, fault >>

\* GRID_Init: memset(&g_GridData, 0), state = IDLE, then MUX_Init()
GRID_Init_Mux ==
    /\ At("GRID_Init") /\ variant = "MUX12"
    /\ g_GridData' = GridDataZero(variant)
    /\ rawRead' = ZeroMatrix(variant)
    /\ Call("MUX_Init", "GRID_Init_Tx")
    /\ UNCHANGED << L, pins, s_IsCalibrated, s_TxBuffer, uart, txOob, calRead, calSum, settled, retval,
                    worldVars, fault >>

\* s_TxBuffer[0] = 0xAA; s_TxBuffer[1] = 0x55;
GRID_Init_Tx ==
    /\ At("GRID_Init_Tx")
    /\ s_TxBuffer' = BufPut(BufPut(s_TxBuffer, 0, PACKET_SYNC_BYTE_1), 1, PACKET_SYNC_BYTE_2)
    /\ txOob' = (txOob \/ 0 \notin DOMAIN s_TxBuffer \/ 1 \notin DOMAIN s_TxBuffer)
    /\ booted' = TRUE
    /\ Return
    /\ UNCHANGED << L, pins, g_GridData, s_IsCalibrated, uart, rawRead, calRead, calSum, settled,
                    retval, variant, env, ads, fault >>

\* GRID_ScanMatrix: state = SCANNING
GRID_ScanMatrix_Mux ==
    /\ At("GRID_ScanMatrix") /\ variant = "MUX12"
    /\ g_GridData' = [g_GridData EXCEPT !.state = "Scanning"]
    /\ L' = [L EXCEPT !.row = 0]
    /\ Goto("Scan_Row")
    /\ UNCHANGED << pins, s_IsCalibrated, s_TxBuffer, ghostVars, worldVars, fault >>

\* for (row ...): MUX_SelectRow(row); after the last row MUX_DisableAllRowMux()
Scan_Row ==
    /\ At("Scan_Row")
    /\ IF L.row < GRID_NUM_ROWS
       THEN L' = [L EXCEPT !.arg = L.row] /\ Call("MUX_SelectRow", "Scan_Drive")
       ELSE L' = [L EXCEPT !.row = 0] /\ Call("MUX_DisableAllRowMux", "Scan_DisableCol")
    /\ UNCHANGED << pins, engineVars, ghostVars, worldVars, fault >>

\* HAL_GPIO_WritePin(ROW_DRIVE_PORT, ROW_DRIVE_PIN, GPIO_PIN_SET)
Scan_Drive ==
    /\ At("Scan_Drive")
    /\ pins' = [pins EXCEPT !.rowDrive = 1]
    /\ Goto("Scan_RowSettle")
    /\ settled' = [settled EXCEPT !.row = FALSE]
    /\ UNCHANGED << L, engineVars, ghostRest, worldVars, fault >>

\* GRID_DelayUs(SCAN_ROW_SETTLE_US)
Scan_RowSettle ==
    /\ At("Scan_RowSettle")
    /\ L' = [L EXCEPT !.col = 0]
    /\ Goto("Scan_Col")
    /\ settled' = Settled
    /\ UNCHANGED << pins, engineVars, ghostRest, worldVars, fault >>

\* for (col ...): MUX_SelectCol(col); after the last column row drive LOW
Scan_Col ==
    /\ At("Scan_Col")
    /\ IF L.col < GRID_NUM_COLS
       THEN /\ L' = [L EXCEPT !.arg = L.col]
            /\ Call("MUX_SelectCol", "Scan_ColSettle")
            /\ UNCHANGED pins
       ELSE /\ pins' = [pins EXCEPT !.rowDrive = 0]
            /\ L' = [L EXCEPT !.col = 0, !.row = L.row + 1]
            /\ Goto("Scan_Row")
    /\ UNCHANGED << engineVars, ghostVars, worldVars, fault >>

\* GRID_DelayUs(SCAN_COL_SETTLE_US); raw = GRID_ReadADC()
Scan_ColSettle ==
    /\ At("Scan_ColSettle")
    /\ Call("GRID_ReadADC", "Scan_Store")
    /\ settled' = Settled
    /\ UNCHANGED << L, pins, engineVars, ghostRest, worldVars, fault >>

\* faulty variant: a scan that also takes the reading as the new baseline
Scan_Store_Rebase ==
    /\ At("Scan_Store")
    /\ g_GridData' = [g_GridData EXCEPT
           !.data[<< L.row, L.col >>] =
               CellValue(variant, L.raw, g_GridData.baseline[<< L.row, L.col >>], s_IsCalibrated),
           !.baseline[<< L.row, L.col >>] = L.raw]
    /\ rawRead' = [rawRead EXCEPT ![<< L.row, L.col >>] = L.raw]
    /\ L' = [L EXCEPT !.raw = 0, !.col = L.col + 1]
    /\ Goto("Scan_Col")
    /\ UNCHANGED << pins, s_IsCalibrated, s_TxBuffer, uart, txOob, calRead, calSum, settled,
                    retval, worldVars, fault >>

\* correct the reading and store it: g_GridData.data[row][col] = pressure
Scan_Store ==
    /\ At("Scan_Store")
    /\ g_GridData' = [g_GridData EXCEPT !.data[<< L.row, L.col >>] =
           CellValue(variant, L.raw, g_GridData.baseline[<< L.row, L.col >>], s_IsCalibrated)]
    /\ rawRead' = [rawRead EXCEPT ![<< L.row, L.col >>] = L.raw]
    /\ L' = [L EXCEPT !.raw = 0, !.col = L.col + 1]
    /\ Goto("Scan_Col")
    /\ UNCHANGED << pins, s_IsCalibrated, s_TxBuffer, uart, txOob, calRead, calSum, settled, retval,
                    worldVars, fault >>

\* MUX_DisableAllColMux()
Scan_DisableCol ==
    /\ At("Scan_DisableCol")
    /\ Call("MUX_DisableAllColMux", "Scan_Finish")
    /\ UNCHANGED << L, pins, engineVars, ghostVars, worldVars, fault >>

\* a scan epilogue that forgets the frame counter
Scan_Finish_NoCount ==
    /\ At("Scan_Finish")
    /\ \E now \in 0 .. MaxTick :
          g_GridData' = [g_GridData EXCEPT !.lastScanTimeMs = now, !.state = "Idle"]
    /\ Return
    /\ UNCHANGED << L, pins, s_IsCalibrated, s_TxBuffer, ghostVars, worldVars, fault >>

\* frameCount++; lastScanTimeMs = HAL_GetTick(); state = IDLE
Scan_Finish ==
    /\ At("Scan_Finish")
    /\ \E now \in 0 .. MaxTick :
          g_GridData' = [g_GridData EXCEPT !.frameCount = g_GridData.frameCount + 1,
                                           !.lastScanTimeMs = now,
                                           !.state = "Idle"]
    /\ Return
    /\ UNCHANGED << L, pins, s_IsCalibrated, s_TxBuffer, ghostVars, worldVars, fault >>

\* a calibration that raises the flag on entry
GRID_Calibrate_Mux_EarlyFlag ==
    /\ At("GRID_Calibrate") /\ variant = "MUX12"
    /\ g_GridData' = [g_GridData EXCEPT !.state = "Calibrating",
                                        !.baseline = ZeroMatrix(variant)]
    /\ s_IsCalibrated' = TRUE
    /\ calRead' = ZeroMatrix(variant)
    /\ calSum' = CalSumEnter(variant, g_GridData.baseline)
    /\ L' = [L EXCEPT !.scan = 0, !.row = 0]
    /\ Goto("Cal_Row")
    /\ UNCHANGED << pins, s_TxBuffer, uart, txOob, rawRead, settled, retval, worldVars, fault >>

\* a calibration that accumulates on top of the baseline it finds
GRID_Calibrate_Mux_NoClear ==
    /\ At("GRID_Calibrate") /\ variant = "MUX12"
    /\ g_GridData' = [g_GridData EXCEPT !.state = "Calibrating"]
    /\ calRead' = ZeroMatrix(variant)
    /\ calSum' = CalSumEnter(variant, g_GridData.baseline)
    /\ L' = [L EXCEPT !.scan = 0, !.row = 0]
    /\ Goto("Cal_Row")
    /\ UNCHANGED << pins, s_IsCalibrated, s_TxBuffer, uart, txOob, rawRead, settled, retval,
                    worldVars, fault >>

\* GRID_Calibrate: state = CALIBRATING; memset(baseline, 0)
GRID_Calibrate_Mux ==
    /\ At("GRID_Calibrate") /\ variant = "MUX12"
    /\ g_GridData' = [g_GridData EXCEPT !.state = "Calibrating",
                                        !.baseline = ZeroMatrix(variant)]
    /\ calRead' = ZeroMatrix(variant)
    /\ calSum' = CalSumEnter(variant, g_GridData.baseline)
    /\ L' = [L EXCEPT !.scan = 0, !.row = 0]
    /\ Goto("Cal_Row")
    /\ UNCHANGED << pins, s_IsCalibrated, s_TxBuffer, uart, txOob, rawRead, settled, retval,
                    worldVars, fault >>

\* for (scan ...) for (row ...): MUX_SelectRow(row); after the last sweep, average
Cal_Row ==
    /\ At("Cal_Row")
    /\ IF L.row < GRID_NUM_ROWS
       THEN L' = [L EXCEPT !.arg = L.row] /\ Call("MUX_SelectRow", "Cal_Drive")
       ELSE IF L.scan + 1 < CALIBRATION_SAMPLES(variant)
            THEN L' = [L EXCEPT !.scan = L.scan + 1, !.row = 0] /\ UNCHANGED pc
            ELSE L' = [L EXCEPT !.scan = 0, !.row = 0, !.col = 0] /\ Goto("Cal_Average")
    /\ UNCHANGED << pins, engineVars, ghostVars, worldVars, fault >>

Cal_Drive ==
    /\ At("Cal_Drive")
    /\ pins' = [pins EXCEPT !.rowDrive = 1]
    /\ Goto("Cal_RowSettle")
    /\ settled' = [settled EXCEPT !.row = FALSE]
    /\ UNCHANGED << L, engineVars, ghostRest, worldVars, fault >>

Cal_RowSettle ==
    /\ At("Cal_RowSettle")
    /\ L' = [L EXCEPT !.col = 0]
    /\ Goto("Cal_Col")
    /\ settled' = Settled
    /\ UNCHANGED << pins, engineVars, ghostRest, worldVars, fault >>

Cal_Col ==
    /\ At("Cal_Col")
    /\ IF L.col < GRID_NUM_COLS
       THEN /\ L' = [L EXCEPT !.arg = L.col]
            /\ Call("MUX_SelectCol", "Cal_ColSettle")
            /\ UNCHANGED pins
       ELSE /\ pins' = [pins EXCEPT !.rowDrive = 0]
            /\ L' = [L EXCEPT !.col = 0, !.row = L.row + 1]
            /\ Goto("Cal_Row")
    /\ UNCHANGED << engineVars, ghostVars, worldVars, fault >>

Cal_ColSettle ==
    /\ At("Cal_ColSettle")
    /\ Call("GRID_ReadADC", "Cal_Accumulate")
    /\ settled' = Settled
    /\ UNCHANGED << L, pins, engineVars, ghostRest, worldVars, fault >>

\* g_GridData.baseline[row][col] += GRID_ReadADC();   (uint16_t accumulator)
Cal_Accumulate ==
    /\ At("Cal_Accumulate")
    /\ g_GridData' = [g_GridData EXCEPT !.baseline[<< L.row, L.col >>] =
                         Accumulate(variant, g_GridData.baseline[<< L.row, L.col >>], L.raw)]
    /\ calRead' = [calRead EXCEPT ![<< L.row, L.col >>] = L.raw]
    /\ calSum' = CalSumAdd(calSum, << L.row, L.col >>, L.raw)
    /\ L' = [L EXCEPT !.raw = 0, !.col = L.col + 1]
    /\ Goto("Cal_Col")
    /\ UNCHANGED << pins, s_IsCalibrated, s_TxBuffer, uart, txOob, rawRead, settled, retval,
                    worldVars, fault >>

\* baseline[row][col] /= CALIBRATION_SAMPLES, one cell per step; then the
\* de-addressing of the build
Cal_Average ==
    /\ At("Cal_Average")
    /\ g_GridData' = [g_GridData EXCEPT !.baseline[<< L.row, L.col >>] =
                         Average(variant, g_GridData.baseline[<< L.row, L.col >>])]
    /\ IF L.col + 1 < NumCols(variant)
       THEN L' = [L EXCEPT !.col = L.col + 1] /\ UNCHANGED pc
       ELSE IF L.row + 1 < NumRows(variant)
            THEN L' = [L EXCEPT !.col = 0, !.row = L.row + 1] /\ UNCHANGED pc
            ELSE /\ L' = [L EXCEPT !.col = 0, !.row = 0]
                 /\ IF variant = "MUX12"
                    THEN Call("MUX_DisableAllRowMux", "Cal_DisableCol")
                    ELSE Call("GRID_DisableAllRows", "Cal_SetFlag")
    /\ UNCHANGED << pins, s_IsCalibrated, s_TxBuffer, ghostVars, worldVars, fault >>

Cal_DisableCol ==
    /\ At("Cal_DisableCol")
    /\ Call("MUX_DisableAllColMux", "Cal_SetFlag")
    /\ UNCHANGED << L, pins, engineVars, ghostVars, worldVars, fault >>

\* s_IsCalibrated = 1
Cal_SetFlag ==
    /\ At("Cal_SetFlag")
    /\ s_IsCalibrated' = TRUE
    /\ Goto("Cal_Idle")
    /\ UNCHANGED << L, pins, g_GridData, s_TxBuffer, ghostVars, worldVars, fault >>

\* state = IDLE
Cal_Idle ==
    /\ At("Cal_Idle")
    /\ g_GridData' = [g_GridData EXCEPT !.state = "Idle"]
    /\ calSum' = [calSum EXCEPT !.prior = ZeroMatrix(variant)]
    /\ Return
    /\ UNCHANGED << L, pins, s_IsCalibrated, s_TxBuffer, uart, txOob, rawRead, calRead,
                    settled, retval, worldVars, fault >>

\* faulty variant: no range check on the cell
GRID_ReadCell_NoCheck ==
    /\ At("GRID_ReadCell")
    /\ L' = [L EXCEPT !.arg = L.row]
    /\ Call("MUX_SelectRow", "RC_Drive")
    /\ UNCHANGED << pins, engineVars, ghostVars, worldVars, fault >>

\* GRID_ReadCell(row, col): range check, then MUX_SelectRow(row)
GRID_ReadCell ==
    /\ At("GRID_ReadCell")
    /\ IF L.row >= GRID_NUM_ROWS \/ L.col >= GRID_NUM_COLS
       THEN L' = [L EXCEPT !.row = 0, !.col = 0] /\ retval' = 0 /\ Return
       ELSE L' = [L EXCEPT !.arg = L.row] /\ UNCHANGED retval
            /\ Call("MUX_SelectRow", "RC_Drive")
    /\ UNCHANGED << pins, engineVars, uart, txOob, rawRead, calRead, calSum, settled, worldVars, fault >>

RC_Drive ==
    /\ At("RC_Drive")
    /\ pins' = [pins EXCEPT !.rowDrive = 1]
    /\ Goto("RC_RowSettle")
    /\ settled' = [settled EXCEPT !.row = FALSE]
    /\ UNCHANGED << L, engineVars, ghostRest, worldVars, fault >>

\* GRID_DelayUs(SCAN_ROW_SETTLE_US); MUX_SelectCol(col)
RC_RowSettle ==
    /\ At("RC_RowSettle")
    /\ L' = [L EXCEPT !.arg = L.col]
    /\ Call("MUX_SelectCol", "RC_ColSettle")
    /\ settled' = Settled
    /\ UNCHANGED << pins, engineVars, ghostRest, worldVars, fault >>

\* GRID_DelayUs(SCAN_COL_SETTLE_US); raw = GRID_ReadADC()
RC_ColSettle ==
    /\ At("RC_ColSettle")
    /\ Call("GRID_ReadADC", "RC_RowOff")
    /\ settled' = Settled
    /\ UNCHANGED << L, pins, engineVars, ghostRest, worldVars, fault >>

\* row drive LOW; MUX_DisableAllRowMux()
RC_RowOff ==
    /\ At("RC_RowOff")
    /\ pins' = [pins EXCEPT !.rowDrive = 0]
    /\ Call("MUX_DisableAllRowMux", "RC_DisableCol")
    /\ UNCHANGED << L, engineVars, ghostVars, worldVars, fault >>

RC_DisableCol ==
    /\ At("RC_DisableCol")
    /\ Call("MUX_DisableAllColMux", "RC_Return")
    /\ UNCHANGED << L, pins, engineVars, ghostVars, worldVars, fault >>

\* correct the reading and return it
RC_Return ==
    /\ At("RC_Return")
    /\ retval' = ReadCellValue(L.raw, g_GridData.baseline[<< L.row, L.col >>], s_IsCalibrated)
    /\ L' = [L EXCEPT !.raw = 0, !.row = 0, !.col = 0]
    /\ Return
    /\ UNCHANGED << pins, engineVars, uart, txOob, rawRead, calRead, calSum, settled, worldVars, fault >>

MuxInit == GRID_ReadADC \/ GRID_Init_Mux \/ GRID_Init_Tx

MuxScan ==
    \/ GRID_ScanMatrix_Mux \/ Scan_Row \/ Scan_Drive \/ Scan_RowSettle \/ Scan_Col
    \/ Scan_ColSettle \/ Scan_Store \/ Scan_DisableCol \/ Scan_Finish

MuxCalibrate ==
    \/ GRID_Calibrate_Mux \/ Cal_Row \/ Cal_Drive \/ Cal_RowSettle \/ Cal_Col
    \/ Cal_ColSettle \/ Cal_Accumulate \/ Cal_Average \/ Cal_DisableCol
    \/ Cal_SetFlag \/ Cal_Idle

MuxEngine == MuxInit \/ MuxScan \/ MuxCalibrate

ReadCell ==
    \/ GRID_ReadCell \/ RC_Drive \/ RC_RowSettle \/ RC_ColSettle \/ RC_RowOff
    \/ RC_DisableCol \/ RC_Return

-----------------------------------------------------------------------------
(* ads1220.c: the ADS1220 driver.                                          *)

hostVars == << variant, booted, env >>

\* ADS1220_CS_Low / ADS1220_CS_High: a pin write guarded by the chip index
CsWrite(a, chipIndex, level) ==
    IF chipIndex < ADS1220_NUM_CHIPS THEN [a EXCEPT !.cs[chipIndex] = level] ELSE a

\* ADS1220_SendCommand(chipIndex, cmd): chip select low
ADS1220_SendCommand ==
    /\ At("ADS1220_SendCommand")
    /\ ads' = CsWrite(ads, L.chipIndex, 0)
    /\ Goto("SendCommand_Tx")
    /\ UNCHANGED << L, pins, engineVars, ghostVars, hostVars, fault >>

\* HAL_SPI_Transmit(&cmd, 1)
SendCommand_Tx ==
    /\ At("SendCommand_Tx")
    /\ ads' = SpiCommand(ads, L.cmd, env)
    /\ Goto("SendCommand_High")
    /\ UNCHANGED << L, pins, engineVars, ghostVars, hostVars, fault >>

\* chip select high
SendCommand_High ==
    /\ At("SendCommand_High")
    /\ ads' = CsWrite(ads, L.chipIndex, 1)
    /\ L' = [L EXCEPT !.cmd = 0]
    /\ Return
    /\ UNCHANGED << pins, engineVars, ghostVars, hostVars, fault >>

\* ADS1220_WriteRegister(chipIndex, reg, value): chip select low
ADS1220_WriteRegister ==
    /\ At("ADS1220_WriteRegister")
    /\ ads' = CsWrite(ads, L.chipIndex, 0)
    /\ Goto("WriteRegister_Tx")
    /\ UNCHANGED << L, pins, engineVars, ghostVars, hostVars, fault >>

\* HAL_SPI_Transmit(txData, 2): WREG | (reg << 2), value
WriteRegister_Tx ==
    /\ At("WriteRegister_Tx")
    /\ ads' = SpiWreg(ads, L.reg, L.value)
    /\ Goto("WriteRegister_High")
    /\ UNCHANGED << L, pins, engineVars, ghostVars, hostVars, fault >>

\* chip select high; if (reg < 4) g_ADS1220[chipIndex].config_reg[reg] = value,
\* with no check of chipIndex
WriteRegister_High ==
    /\ At("WriteRegister_High")
    /\ LET a == CsWrite(ads, L.chipIndex, 1) IN
       ads' = IF L.reg >= 4 THEN a
              ELSE IF L.chipIndex < ADS1220_NUM_CHIPS
                   THEN [a EXCEPT !.config_reg[L.chipIndex][L.reg] = L.value]
                   ELSE [a EXCEPT !.oob = @ \cup {<< "config_reg", L.chipIndex >>}]
    /\ L' = [L EXCEPT !.reg = 0, !.value = 0]
    /\ Return
    /\ UNCHANGED << pins, engineVars, ghostVars, hostVars, fault >>

\* the values ADS1220_Init passes to ADS1220_Configure
InitReg(reg) ==
    CASE reg = 0 -> ADS1220_MUX_AIN0_AVSS + ADS1220_PGA_BYPASS
      [] reg = 1 -> ADS1220_REG1_INIT
      [] reg = 2 -> ADS1220_VREF_AVDD
      [] OTHER   -> 0

\* ADS1220_Configure: ADS1220_WriteRegister for registers 0, 1, 2, 3
ADS1220_Configure ==
    /\ At("ADS1220_Configure")
    /\ IF L.ch < 4
       THEN /\ L' = [L EXCEPT !.reg = L.ch, !.value = InitReg(L.ch), !.ch = L.ch + 1]
            /\ Call("ADS1220_WriteRegister", "ADS1220_Configure")
       ELSE L' = [L EXCEPT !.ch = 0] /\ Return
    /\ UNCHANGED << pins, ads, engineVars, ghostVars, hostVars, fault >>

\* ADS1220_Init: the chip-select assignments g_ADS1220[0] .. g_ADS1220[7];
\* those at or past ADS1220_NUM_CHIPS land behind the array
ADS1220_Init ==
    /\ At("ADS1220_Init")
    /\ ads' = [ads EXCEPT !.oob = @ \cup { << "cs", i >> :
                                           i \in ADS1220_NUM_CHIPS .. (ADS1220_CS_ASSIGNED - 1) }]
    /\ L' = [L EXCEPT !.chip = 0]
    /\ Goto("Init_Deselect")
    /\ UNCHANGED << pins, engineVars, ghostVars, hostVars, fault >>

\* for (i ...) ADS1220_CS_High(i); then HAL_Delay(10)
Init_Deselect ==
    /\ At("Init_Deselect")
    /\ ads' = CsWrite(ads, L.chip, 1)
    /\ IF L.chip + 1 < ADS1220_NUM_CHIPS
       THEN L' = [L EXCEPT !.chip = L.chip + 1] /\ UNCHANGED pc
       ELSE L' = [L EXCEPT !.chip = 0] /\ Goto("Init_Chip")
    /\ UNCHANGED << pins, engineVars, ghostVars, hostVars, fault >>

\* for (i ...) ADS1220_Reset(i)
Init_Chip ==
    /\ At("Init_Chip")
    /\ IF L.chip < ADS1220_NUM_CHIPS
       THEN /\ L' = [L EXCEPT !.chipIndex = L.chip, !.cmd = ADS1220_CMD_RESET]
            /\ Call("ADS1220_SendCommand", "Init_Configure")
       ELSE L' = [L EXCEPT !.chip = 0, !.chipIndex = 0] /\ Return
    /\ UNCHANGED << pins, ads, engineVars, ghostVars, hostVars, fault >>

\* faulty variant: the chips are reset but not configured
Init_Configure_Skip ==
    /\ At("Init_Configure")
    /\ L' = [L EXCEPT !.ch = 0, !.chip = L.chip + 1]
    /\ Goto("Init_Chip")
    /\ UNCHANGED << pins, ads, engineVars, ghostVars, hostVars, fault >>

\* HAL_Delay(1); ADS1220_Configure(i, ...)
Init_Configure ==
    /\ At("Init_Configure")
    /\ L' = [L EXCEPT !.ch = 0, !.chip = L.chip + 1]
    /\ Call("ADS1220_Configure", "Init_Chip")
    /\ UNCHANGED << pins, ads, engineVars, ghostVars, hostVars, fault >>

\* ADS1220_SetChannel(chipIndex, channel): reg0 = s_ChannelMux[channel] | gain | bypass
ADS1220_SetChannel ==
    /\ At("ADS1220_SetChannel")
    /\ IF L.chan >= 4
       THEN L' = [L EXCEPT !.chan = 0] /\ Return
       ELSE /\ L' = [L EXCEPT !.chan = 0, !.reg = 0,
                              !.value = ADS1220_MUX_AIN0_AVSS + 16 * L.chan + ADS1220_PGA_BYPASS]
            /\ Goto("ADS1220_WriteRegister")
    /\ settled' = IF L.chan >= 4 THEN settled ELSE [settled EXCEPT !.col = FALSE]
    /\ UNCHANGED << pins, ads, engineVars, ghostRest, hostVars, fault >>

\* ADS1220_ReadData(chipIndex): ADS1220_SendCommand(chipIndex, START)
ADS1220_ReadData ==
    /\ At("ADS1220_ReadData")
    /\ L' = [L EXCEPT !.cmd = ADS1220_CMD_START]
    /\ Call("ADS1220_SendCommand", "ReadData_Wait")
    /\ UNCHANGED << pins, ads, engineVars, ghostVars, hostVars, fault >>

\* ADS1220_WaitDRDY: HAL_Delay(2); then chip select low
ReadData_Wait ==
    /\ At("ReadData_Wait")
    /\ ads' = CsWrite(ads, L.chipIndex, 0)
    /\ Goto("ReadData_Rx")
    /\ settled' = Settled
    /\ UNCHANGED << L, pins, engineVars, ghostRest, hostVars, fault >>

\* HAL_SPI_Transmit(RDATA); HAL_SPI_Receive(rxData, 3); combine MSB first
ReadData_Rx ==
    /\ At("ReadData_Rx")
    /\ L' = [L EXCEPT !.value = SpiRdata(ads)]
    /\ Goto("ReadData_High")
    /\ UNCHANGED << pins, ads, engineVars, ghostVars, hostVars, fault >>

\* faulty variant: the chip select left asserted after the result is read
ReadData_High_Held ==
    /\ At("ReadData_High")
    /\ Return
    /\ UNCHANGED << L, pins, ads, engineVars, ghostVars, hostVars, fault >>

\* chip select high; return value
ReadData_High ==
    /\ At("ReadData_High")
    /\ ads' = CsWrite(ads, L.chipIndex, 1)
    /\ Return
    /\ UNCHANGED << L, pins, engineVars, ghostVars, hostVars, fault >>

\* ADS1220_ReadAllColumns: values[chip * CHANNELS + ch] = ADS1220_ReadChannel(chip, ch),
\* that is ADS1220_SetChannel(chip, ch) then ADS1220_ReadData(chip)
ADS1220_ReadAllColumns ==
    /\ At("ADS1220_ReadAllColumns")
    /\ IF L.chip < ADS1220_NUM_CHIPS
       THEN /\ L' = [L EXCEPT !.chipIndex = L.chip, !.chan = L.ch]
            /\ pc' = << "ADS1220_SetChannel", "ADS1220_ReadData", "ReadAllColumns_Store" >>
                     \o Tail(pc)
       ELSE L' = [L EXCEPT !.chip = 0, !.ch = 0, !.chipIndex = 0] /\ Return
    /\ UNCHANGED << pins, ads, engineVars, ghostVars, hostVars, fault >>

\* faulty variant: the channel number left out of the column index
ReadAllColumns_Store_ChipOnly ==
    /\ At("ReadAllColumns_Store")
    /\ LET colIndex == L.chip * ADS1220_CHANNELS
           last == L.ch + 1 >= ADS1220_CHANNELS
       IN  L' = [L EXCEPT !.colValues = [c \in DOMAIN L.colValues |->
                                            IF c = colIndex THEN L.value ELSE L.colValues[c]],
                          !.written = Append(L.written, colIndex),
                          !.value = 0,
                          !.ch = IF last THEN 0 ELSE L.ch + 1,
                          !.chip = IF last THEN L.chip + 1 ELSE L.chip]
    /\ Goto("ADS1220_ReadAllColumns")
    /\ UNCHANGED << pins, ads, engineVars, ghostVars, hostVars, fault >>

\* uint8_t colIndex = chip * ADS1220_CHANNELS + ch; values[colIndex] = (the reading)
ReadAllColumns_Store ==
    /\ At("ReadAllColumns_Store")
    /\ LET colIndex == L.chip * ADS1220_CHANNELS + L.ch
           last == L.ch + 1 >= ADS1220_CHANNELS
       IN  L' = [L EXCEPT !.colValues = [c \in DOMAIN L.colValues |->
                                            IF c = colIndex THEN L.value ELSE L.colValues[c]],
                          !.written = Append(L.written, colIndex),
                          !.value = 0,
                          !.ch = IF last THEN 0 ELSE L.ch + 1,
                          !.chip = IF last THEN L.chip + 1 ELSE L.chip]
    /\ Goto("ADS1220_ReadAllColumns")
    /\ UNCHANGED << pins, ads, engineVars, ghostVars, hostVars, fault >>

AdsDriver ==
    \/ ADS1220_SendCommand \/ SendCommand_Tx \/ SendCommand_High
    \/ ADS1220_WriteRegister \/ WriteRegister_Tx \/ WriteRegister_High
    \/ ADS1220_Configure \/ ADS1220_Init \/ Init_Deselect \/ Init_Chip \/ Init_Configure
    \/ ADS1220_SetChannel \/ ADS1220_ReadData \/ ReadData_Wait \/ ReadData_Rx
    \/ ReadData_High \/ ADS1220_ReadAllColumns \/ ReadAllColumns_Store

-----------------------------------------------------------------------------
(* unnamed/part_000 (grid_scan.c): the 24-bit engine.                      *)

\* GRID_DisableAllRows: HAL_GPIO_WritePin(ROW_GPIO_PORT, ROW_GPIO_PINS, RESET);
\* ROW_GPIO_PINS covers one pin per row
GRID_DisableAllRows ==
    /\ At("GRID_DisableAllRows")
    /\ ads' = [ads EXCEPT !.rows = [r \in Rows("ADS24") |-> 0]]
    /\ Return
    /\ UNCHANGED << L, pins, engineVars, ghostVars, hostVars, fault >>

\* faulty variant: the row set high without clearing the others first
GRID_EnableRow_NoDisable ==
    /\ At("GRID_EnableRow")
    /\ IF L.arg >= ADS_GRID_NUM_ROWS
       THEN L' = [L EXCEPT !.arg = 0] /\ Return
       ELSE UNCHANGED L /\ Goto("EnableRow_Set")
    /\ UNCHANGED << pins, ads, engineVars, ghostVars, hostVars, fault >>

\* GRID_EnableRow(row): range check, then GRID_DisableAllRows()
GRID_EnableRow ==
    /\ At("GRID_EnableRow")
    /\ IF L.arg >= ADS_GRID_NUM_ROWS
       THEN L' = [L EXCEPT !.arg = 0] /\ Return
       ELSE UNCHANGED L /\ Call("GRID_DisableAllRows", "EnableRow_Set")
    /\ UNCHANGED << pins, ads, engineVars, ghostVars, hostVars, fault >>

\* HAL_GPIO_WritePin(ROW_GPIO_PORT, (1U << row), GPIO_PIN_SET)
EnableRow_Set ==
    /\ At("EnableRow_Set")
    /\ ads' = [ads EXCEPT !.rows[L.arg] = 1]
    /\ L' = [L EXCEPT !.arg = 0]
    /\ Return
    /\ settled' = [settled EXCEPT !.row = FALSE]
    /\ UNCHANGED << pins, engineVars, ghostRest, hostVars, fault >>

\* GRID_Init: memset(&g_GridData, 0), state = IDLE, then ADS1220_Init(hspi)
GRID_Init_Ads ==
    /\ At("GRID_Init") /\ variant = "ADS24"
    /\ g_GridData' = GridDataZero(variant)
    /\ rawRead' = ZeroMatrix(variant)
    /\ Call("ADS1220_Init", "GRID_Init_Rows")
    /\ UNCHANGED << L, pins, s_IsCalibrated, s_TxBuffer, uart, txOob, calRead, calSum, settled, retval,
                    worldVars, fault >>

\* GRID_DisableAllRows()
GRID_Init_Rows ==
    /\ At("GRID_Init_Rows")
    /\ Call("GRID_DisableAllRows", "GRID_Init_Tx")
    /\ UNCHANGED << L, pins, engineVars, ghostVars, worldVars, fault >>

\* GRID_ScanMatrix: state = SCANNING
GRID_ScanMatrix_Ads ==
    /\ At("GRID_ScanMatrix") /\ variant = "ADS24"
    /\ g_GridData' = [g_GridData EXCEPT !.state = "Scanning"]
    /\ L' = [L EXCEPT !.row = 0]
    /\ Goto("AScan_Row")
    /\ UNCHANGED << pins, s_IsCalibrated, s_TxBuffer, ghostVars, worldVars, fault >>

\* for (row ...): GRID_EnableRow(row); after the last row GRID_DisableAllRows()
AScan_Row ==
    /\ At("AScan_Row")
    /\ IF L.row < ADS_GRID_NUM_ROWS
       THEN L' = [L EXCEPT !.arg = L.row] /\ Call("GRID_EnableRow", "AScan_Settle")
       ELSE L' = [L EXCEPT !.row = 0] /\ Call("GRID_DisableAllRows", "Scan_Finish")
    /\ UNCHANGED << pins, engineVars, ghostVars, worldVars, fault >>

\* the busy-wait loop; ADS1220_ReadAllColumns(colValues)
AScan_Settle ==
    /\ At("AScan_Settle")
    /\ L' = [L EXCEPT !.col = 0]
    /\ Call("ADS1220_ReadAllColumns", "AScan_Store")
    /\ settled' = Settled
    /\ UNCHANGED << pins, engineVars, ghostRest, worldVars, fault >>

\* for (col ...): correct colValues[col] and store it, scaled to 16 bit
AScan_Store ==
    /\ At("AScan_Store")
    /\ g_GridData' = [g_GridData EXCEPT !.data[<< L.row, L.col >>] =
           CellValue(variant, L.colValues[L.col], g_GridData.baseline[<< L.row, L.col >>],
                     s_IsCalibrated)]
    /\ rawRead' = [rawRead EXCEPT ![<< L.row, L.col >>] = L.colValues[L.col]]
    /\ IF L.col + 1 < ADS_GRID_NUM_COLS
       THEN L' = [L EXCEPT !.col = L.col + 1] /\ UNCHANGED pc
       ELSE /\ L' = [L EXCEPT !.col = 0, !.row = L.row + 1, !.colValues = L0.colValues,
                            !.written = << >>]
            /\ Goto("AScan_Row")
    /\ UNCHANGED << pins, s_IsCalibrated, s_TxBuffer, uart, txOob, calRead, calSum, settled, retval,
                    worldVars, fault >>

\* faulty variant: the baseline of the previous calibration not cleared
GRID_Calibrate_Ads_NoClear ==
    /\ At("GRID_Calibrate") /\ variant = "ADS24"
    /\ g_GridData' = [g_GridData EXCEPT !.state = "Calibrating"]
    /\ calRead' = ZeroMatrix(variant)
    /\ calSum' = CalSumEnter(variant, g_GridData.baseline)
    /\ L' = [L EXCEPT !.scan = 0, !.row = 0]
    /\ Goto("ACal_Row")
    /\ UNCHANGED << pins, s_IsCalibrated, s_TxBuffer, uart, txOob, rawRead, settled, retval,
                    worldVars, fault >>

\* GRID_Calibrate: state = CALIBRATING; memset(baseline, 0)
GRID_Calibrate_Ads ==
    /\ At("GRID_Calibrate") /\ variant = "ADS24"
    /\ g_GridData' = [g_GridData EXCEPT !.state = "Calibrating",
                                        !.baseline = ZeroMatrix(variant)]
    /\ calRead' = ZeroMatrix(variant)
    /\ calSum' = CalSumEnter(variant, g_GridData.baseline)
    /\ L' = [L EXCEPT !.scan = 0, !.row = 0]
    /\ Goto("ACal_Row")
    /\ UNCHANGED << pins, s_IsCalibrated, s_TxBuffer, uart, txOob, rawRead, settled, retval,
                    worldVars, fault >>

\* for (scan ...) for (row ...): GRID_EnableRow(row); after the last sweep, average
ACal_Row ==
    /\ At("ACal_Row")
    /\ IF L.row < ADS_GRID_NUM_ROWS
       THEN L' = [L EXCEPT !.arg = L.row] /\ Call("GRID_EnableRow", "ACal_Settle")
       ELSE IF L.scan + 1 < CALIBRATION_SAMPLES(variant)
            THEN L' = [L EXCEPT !.scan = L.scan + 1, !.row = 0] /\ UNCHANGED pc
            ELSE L' = [L EXCEPT !.scan = 0, !.row = 0, !.col = 0] /\ Goto("Cal_Average")
    /\ UNCHANGED << pins, engineVars, ghostVars, worldVars, fault >>

\* HAL_Delay(1); ADS1220_ReadAllColumns(colValues)
ACal_Settle ==
    /\ At("ACal_Settle")
    /\ L' = [L EXCEPT !.col = 0]
    /\ Call("ADS1220_ReadAllColumns", "ACal_Accumulate")
    /\ settled' = Settled
    /\ UNCHANGED << pins, engineVars, ghostRest, worldVars, fault >>

\* for (col ...): baseline[row][col] += colValues[col]
ACal_Accumulate ==
    /\ At("ACal_Accumulate")
    /\ g_GridData' = [g_GridData EXCEPT !.baseline[<< L.row, L.col >>] =
           Accumulate(variant, g_GridData.baseline[<< L.row, L.col >>], L.colValues[L.col])]
    /\ calRead' = [calRead EXCEPT ![<< L.row, L.col >>] = L.colValues[L.col]]
    /\ calSum' = CalSumAdd(calSum, << L.row, L.col >>, L.colValues[L.col])
    /\ IF L.col + 1 < ADS_GRID_NUM_COLS
       THEN L' = [L EXCEPT !.col = L.col + 1] /\ UNCHANGED pc
       ELSE /\ L' = [L EXCEPT !.col = 0, !.row = L.row + 1, !.colValues = L0.colValues,
                            !.written = << >>]
            /\ Goto("ACal_Row")
    /\ UNCHANGED << pins, s_IsCalibrated, s_TxBuffer, uart, txOob, rawRead, settled, retval,
                    worldVars, fault >>

AdsEngine ==
    \/ GRID_DisableAllRows \/ GRID_EnableRow \/ EnableRow_Set
    \/ GRID_Init_Ads \/ GRID_Init_Rows
    \/ GRID_ScanMatrix_Ads \/ AScan_Row \/ AScan_Settle \/ AScan_Store
    \/ GRID_Calibrate_Ads \/ ACal_Row \/ ACal_Settle \/ ACal_Accumulate

-----------------------------------------------------------------------------
(* GRID_TransmitData, the same code in both builds.                        *)

\* faulty variant: the payload index starts at 0, over the sync bytes
GRID_TransmitData_FromZero ==
    /\ At("GRID_TransmitData")
    /\ g_GridData' = [g_GridData EXCEPT !.state = "Transmitting"]
    /\ L' = [L EXCEPT !.checksum = 0, !.idx = 0, !.row = 0, !.col = 0]
    /\ Goto("Tx_Cell")
    /\ UNCHANGED << pins, s_IsCalibrated, s_TxBuffer, ghostVars, worldVars, fault >>

\* state = TRANSMITTING; checksum = 0; payloadIdx = PACKET_HEADER_SIZE
GRID_TransmitData ==
    /\ At("GRID_TransmitData")
    /\ g_GridData' = [g_GridData EXCEPT !.state = "Transmitting"]
    /\ L' = [L EXCEPT !.checksum = 0, !.idx = PACKET_HEADER_SIZE, !.row = 0, !.col = 0]
    /\ IF GRID_TOTAL_NODES(variant) > 0 THEN Goto("Tx_Cell") ELSE Goto("Tx_Footer")
    /\ UNCHANGED << pins, s_IsCalibrated, s_TxBuffer, ghostVars, worldVars, fault >>

\* faulty variant: high byte first
TxPackBigEndian(buf, idx, checksum, val) ==
    [ buf |-> BufPut(BufPut(buf, idx, HighByte(val)), idx + 1, LowByte(val)),
      idx |-> U16(idx + 2),
      checksum |-> U16(U16(checksum + LowByte(val)) + HighByte(val)),
      oob |-> (idx \notin DOMAIN buf \/ (idx + 1) \notin DOMAIN buf) ]

\* faulty variant: an 8-bit checksum accumulator
TxPackChecksum8(buf, idx, checksum, val) ==
    [ buf |-> BufPut(BufPut(buf, idx, LowByte(val)), idx + 1, HighByte(val)),
      idx |-> U16(idx + 2),
      checksum |-> U8(U8(checksum + LowByte(val)) + HighByte(val)),
      oob |-> (idx \notin DOMAIN buf \/ (idx + 1) \notin DOMAIN buf) ]

\* one pass of the packing loop: low byte, high byte, checksum += both
TxPack(buf, idx, checksum, val) ==
    [ buf |-> BufPut(BufPut(buf, idx, LowByte(val)), idx + 1, HighByte(val)),
      idx |-> U16(idx + 2),
      checksum |-> U16(U16(checksum + LowByte(val)) + HighByte(val)),
      oob |-> (idx \notin DOMAIN buf \/ (idx + 1) \notin DOMAIN buf) ]

\* checksum low, checksum high, '\r', '\n'
TxFooter(buf, idx, checksum) ==
    [ buf |-> BufPut(BufPut(BufPut(BufPut(buf, idx, LowByte(checksum)),
                                   idx + 1, HighByte(checksum)),
                            idx + 2, CR),
                     idx + 3, LF),
      idx |-> U16(idx + 4),
      oob |-> \E k \in 0 .. 3 : (idx + k) \notin DOMAIN buf ]

Tx_Cell ==
    /\ At("Tx_Cell")
    /\ LET r == TxPack(s_TxBuffer, L.idx, L.checksum, g_GridData.data[<< L.row, L.col >>]) IN
       /\ s_TxBuffer' = r.buf
       /\ txOob' = (txOob \/ r.oob)
       /\ IF L.col + 1 < NumCols(variant)
          THEN L' = [L EXCEPT !.idx = r.idx, !.checksum = r.checksum, !.col = L.col + 1]
               /\ UNCHANGED pc
          ELSE IF L.row + 1 < NumRows(variant)
               THEN L' = [L EXCEPT !.idx = r.idx, !.checksum = r.checksum,
                                   !.col = 0, !.row = L.row + 1]
                    /\ UNCHANGED pc
               ELSE L' = [L EXCEPT !.idx = r.idx, !.checksum = r.checksum,
                                   !.col = 0, !.row = 0]
                    /\ Goto("Tx_Footer")
    /\ UNCHANGED << pins, g_GridData, s_IsCalibrated, uart, rawRead, calRead, calSum, settled, retval,
                    worldVars, fault >>

Tx_Footer ==
    /\ At("Tx_Footer")
    /\ LET r == TxFooter(s_TxBuffer, L.idx, L.checksum) IN
       /\ s_TxBuffer' = r.buf
       /\ txOob' = (txOob \/ r.oob)
       /\ L' = [L EXCEPT !.idx = r.idx, !.checksum = 0]
    /\ Goto("Tx_Uart")
    /\ UNCHANGED << pins, g_GridData, s_IsCalibrated, uart, rawRead, calRead, calSum, settled, retval,
                    worldVars, fault >>

\* HAL_UART_Transmit(s_hUart, s_TxBuffer, PACKET_TOTAL_SIZE, HAL_MAX_DELAY)
Tx_Uart ==
    /\ At("Tx_Uart")
    /\ uart' = [i \in 1 .. PACKET_TOTAL_SIZE(variant) |-> s_TxBuffer[i - 1]]
    /\ Goto("Tx_Finish")
    /\ UNCHANGED << L, pins, engineVars, txOob, rawRead, calRead, calSum, settled, retval, worldVars, fault >>

\* a transmit epilogue that leaves the state at TRANSMITTING
Tx_Finish_NoIdle ==
    /\ At("Tx_Finish")
    /\ L' = [L EXCEPT !.idx = 0]
    /\ Return
    /\ UNCHANGED << pins, engineVars, ghostVars, worldVars, fault >>

\* state = IDLE
Tx_Finish ==
    /\ At("Tx_Finish")
    /\ g_GridData' = [g_GridData EXCEPT !.state = "Idle"]
    /\ L' = [L EXCEPT !.idx = 0]
    /\ Return
    /\ UNCHANGED << pins, s_IsCalibrated, s_TxBuffer, ghostVars, worldVars, fault >>

Transmit == GRID_TransmitData \/ Tx_Cell \/ Tx_Footer \/ Tx_Uart \/ Tx_Finish

-----------------------------------------------------------------------------
(* The caller: main() calls GRID_Init first; afterwards any public entry   *)
(* point may be called, one at a time.  Between calls the pressure pattern *)
(* on the grid may change.                                                 *)

Enter(f) ==
    /\ InMain
    /\ pc' = << f >>
    /\ UNCHANGED << pins, engineVars, ghostVars, worldVars, fault >>

Main_Init == Enter("GRID_Init") /\ UNCHANGED L

Main_Calibrate == booted /\ Enter("GRID_Calibrate") /\ UNCHANGED L

Main_ScanMatrix ==
    /\ booted /\ g_GridData.frameCount < MaxFrames
    /\ Enter("GRID_ScanMatrix") /\ UNCHANGED L

Main_TransmitData == booted /\ Enter("GRID_TransmitData") /\ UNCHANGED L

\* value = GRID_ReadCell(r, c), in range or one past it
Main_ReadCell ==
    /\ booted /\ variant = "MUX12"
    /\ \E r \in 0 .. GRID_NUM_ROWS, c \in 0 .. GRID_NUM_COLS :
          /\ (r = GRID_NUM_ROWS => c = 0) /\ (c = GRID_NUM_COLS => r = 0)
          /\ L' = [L EXCEPT !.row = r, !.col = c]
    /\ InMain
    /\ pc' = << "GRID_ReadCell", "Main_GotCell" >>
    /\ UNCHANGED << pins, engineVars, ghostVars, worldVars, fault >>

\* the caller has taken the returned value
Main_GotCell ==
    /\ At("Main_GotCell")
    /\ retval' = 0
    /\ Return
    /\ UNCHANGED << L, pins, engineVars, uart, txOob, rawRead, calRead, calSum, settled, worldVars, fault >>

Stimulus ==
    /\ InMain /\ booted
    /\ env' \in Envs \ {env}
    /\ UNCHANGED << variant, booted, pc, L, pins, ads, engineVars, ghostVars, fault >>

Main ==
    \/ Main_Init \/ Main_Calibrate \/ Main_ScanMatrix \/ Main_TransmitData
    \/ Main_ReadCell \/ Main_GotCell \/ Stimulus

Next == Main \/ MuxDriver \/ MuxEngine \/ ReadCell \/ AdsDriver \/ AdsEngine \/ Transmit

Spec == Init /\ [][Next]_vars

TypeOK ==
    /\ g_GridData.state \in {"Idle", "Scanning", "Calibrating", "Transmitting"}
    /\ \A cell \in Cells(variant) : g_GridData.data[cell] \in 0 .. 65535
    /\ settled \in [row : BOOLEAN, col : BOOLEAN]
    /\ \A cell \in Cells(variant) : calSum.n[cell] \in 0 .. CALIBRATION_SAMPLES(variant)

-----------------------------------------------------------------------------
(* The per-cell correction on chosen readings: the engine stands at the    *)
(* store of cell (0, 0) of a scan, with a raw reading and a baseline drawn *)
(* from the boundary values of the converter range.                        *)

RawSamples(v) ==
    IF v = "MUX12" THEN {0, 1, 100, 3000, 4045, 4046, 4094, 4095}
    ELSE {0, 255, 409600, 12288000, 16772215, 16772216, 16777214, 16777215}

BaselineSamples(v) ==
    IF v = "MUX12" THEN {0, 49, 50, 3000, 4095}
    ELSE {0, 4999, 5000, 5255, 12288000, 16777215}

InitArith ==
    /\ variant \in Variants
    /\ booted = TRUE
    /\ pc = IF variant = "MUX12" THEN << "Scan_Store" >> ELSE << "AScan_Store" >>
    /\ s_IsCalibrated \in BOOLEAN
    /\ \E raw \in RawSamples(variant) :
         \E base \in IF s_IsCalibrated THEN BaselineSamples(variant) ELSE {0} :
            /\ L = [L0 EXCEPT !.raw = IF variant = "MUX12" THEN raw ELSE 0,
                              !.colValues = [c \in DOMAIN L0.colValues |->
                                               IF variant = "ADS24" THEN raw ELSE 0]]
            /\ g_GridData = [GridDataZero(variant) EXCEPT
                                !.state = "Scanning",
                                !.baseline = [cell \in Cells(variant) |-> base]]
    /\ s_TxBuffer = [i \in BufIndex(variant) |->
                        CASE i = 0 -> PACKET_SYNC_BYTE_1
                          [] i = 1 -> PACKET_SYNC_BYTE_2
                          [] OTHER -> 0]
    /\ pins = PinsReset
    /\ ads = AdsReset
    /\ env = "rest"
    /\ uart = << >>
    /\ txOob = FALSE
    /\ rawRead = ZeroMatrix(variant)
    /\ calRead = ZeroMatrix(variant)
    /\ calSum = CalSumZero(variant)
    /\ settled = Settled
    /\ retval = 0
    /\ fault = FALSE

NextArith == Scan_Store \/ AScan_Store

SpecArith == InitArith /\ [][NextArith]_vars

-----------------------------------------------------------------------------
(* The encoder on frames of the source's size: the engine is idle after    *)
(* GRID_Init with a frame in g_GridData.data, and GRID_TransmitData runs.  *)

FrameKinds == 0 .. 7

Frame(k) ==
    [cell \in Cells(FullFrame) |->
        LET n == cell[1] * NumCols(FullFrame) + cell[2] IN
        CASE k = 0 -> 0
          [] k = 1 -> 65535
          [] k = 2 -> 255
          [] k = 3 -> 65280
          [] k = 4 -> (n * 273) % 65536
          [] k = 5 -> 65535 - n
          [] k = 6 -> IF n = 0 THEN 4660 ELSE 0
          [] OTHER -> IF n % 2 = 0 THEN 65535 ELSE 4095]

InitTx ==
    /\ variant = FullFrame
    /\ booted = TRUE
    /\ pc = << >>
    /\ L = L0
    /\ s_IsCalibrated = FALSE
    /\ \E k \in FrameKinds :
          g_GridData = [GridDataZero(variant) EXCEPT !.data = Frame(k), !.frameCount = 1]
    /\ s_TxBuffer = [i \in BufIndex(variant) |->
                        CASE i = 0 -> PACKET_SYNC_BYTE_1
                          [] i = 1 -> PACKET_SYNC_BYTE_2
                          [] OTHER -> 0]
    /\ pins = PinsReset
    /\ ads = AdsReset
    /\ env = "rest"
    /\ uart = << >>
    /\ txOob = FALSE
    /\ rawRead = ZeroMatrix(variant)
    /\ calRead = ZeroMatrix(variant)
    /\ calSum = CalSumZero(variant)
    /\ settled = Settled
    /\ retval = 0
    /\ fault = FALSE

NextTx == Main_TransmitData \/ Transmit

SpecTx == InitTx /\ [][NextTx]_vars

-----------------------------------------------------------------------------
(* The multiplexer driver on its own: after MUX_Init the caller may call   *)
(* any function of grid_mux.h, in any order, with any argument up to one   *)
(* past its range.                                                         *)

InitMux == Init /\ variant = "MUX12"

\* MUX_Init()
MuxCall_Init ==
    /\ InMain /\ variant = "MUX12"
    /\ pc' = << "MUX_Init", "Mux_Ready" >>
    /\ UNCHANGED << L, pins, engineVars, ghostVars, worldVars, fault >>

\* MUX_Init has returned
Mux_Ready ==
    /\ At("Mux_Ready")
    /\ booted' = TRUE
    /\ Return
    /\ UNCHANGED << L, pins, engineVars, ghostVars, variant, env, ads, fault >>

\* MUX_SelectRow(a), MUX_SelectCol(a), MUX_EnableRowMux(a), MUX_EnableColMux(a),
\* MUX_SetChannel(a), MUX_DisableAllRowMux(), MUX_DisableAllColMux()
MuxCall ==
    /\ InMain /\ booted /\ variant = "MUX12"
    /\ \/ \E a \in 0 .. GRID_NUM_ROWS :
             /\ L' = [L EXCEPT !.arg = a, !.row = a]
             /\ pc' = << "MUX_SelectRow", "Mux_RowSelected" >>
       \/ \E a \in 0 .. GRID_NUM_COLS :
             /\ L' = [L EXCEPT !.arg = a, !.col = a]
             /\ pc' = << "MUX_SelectCol", "Mux_ColSelected" >>
       \/ \E a \in 0 .. MUX_ROW_COUNT :
             /\ L' = [L EXCEPT !.muxIndex = a]
             /\ pc' = << "MUX_EnableRowMux", "Mux_Returned" >>
       \/ \E a \in 0 .. MUX_COL_COUNT :
             /\ L' = [L EXCEPT !.muxIndex = a]
             /\ pc' = << "MUX_EnableColMux", "Mux_Returned" >>
       \/ \E a \in 0 .. 8 :
             /\ L' = [L EXCEPT !.chan = a]
             /\ pc' = << "MUX_SetChannel", "Mux_Returned" >>
       \/ \E f \in {"MUX_DisableAllRowMux", "MUX_DisableAllColMux"} :
             /\ UNCHANGED L
             /\ pc' = << f, "Mux_Returned" >>
    /\ UNCHANGED << pins, engineVars, ghostVars, worldVars, fault >>

\* the call has returned to the caller
Mux_Returned ==
    /\ \/ At("Mux_RowSelected") \/ At("Mux_ColSelected") \/ At("Mux_Returned")
    /\ L' = [L EXCEPT !.row = 0, !.col = 0]
    /\ Return
    /\ UNCHANGED << pins, engineVars, ghostVars, worldVars, fault >>

NextMux == MuxCall_Init \/ Mux_Ready \/ MuxCall \/ Mux_Returned \/ MuxDriver

SpecMux == InitMux /\ [][NextMux]_vars

-----------------------------------------------------------------------------
(* GRID_DelayUs against the free-running cycle counter: after GRID_Init    *)
(* the counter advances at any time, by any number of ticks between two    *)
(* reads of the loop, and GRID_DelayUs is called with any delay up to the  *)
(* first one whose tick count no longer fits the counter.                  *)

CyccntModulus == 2 ^ CYCCNT_BITS
\* the first delay for which us * (SystemCoreClock / 1000000) overflows
MaxUs == ((CyccntModulus - 1) \div TICKS_PER_US) + 1
\* the count of elapsed ticks kept for the properties saturates here, above
\* every delay that fits the counter; the count of ticks since the last read
\* saturates one above the interval in which the loop sees the delay over
ElapsedCap == CyccntModulus

Min(a, b) == IF a < b THEN a ELSE b

\* the state GRID_Init leaves: GRID_EnableDWT has set DWT_CYCCNT = 0
InitDelay ==
    /\ variant = "MUX12"
    /\ booted = TRUE
    /\ pc = << >>
    /\ L = L0
    /\ g_GridData = GridDataZero(variant)
    /\ s_IsCalibrated = FALSE
    /\ s_TxBuffer = [i \in BufIndex(variant) |->
                        CASE i = 0 -> PACKET_SYNC_BYTE_1
                          [] i = 1 -> PACKET_SYNC_BYTE_2
                          [] OTHER -> 0]
    /\ pins = [PinsReset EXCEPT !.rowEn = [m \in RowMuxes |-> 1],
                                !.colEn = [m \in ColMuxes |-> 1]]
    /\ ads = AdsReset
    /\ env = "rest"
    /\ uart = << >>
    /\ txOob = FALSE
    /\ rawRead = ZeroMatrix(variant)
    /\ calRead = ZeroMatrix(variant)
    /\ calSum = CalSumZero(variant)
    /\ settled = Settled
    /\ retval = 0
    /\ fault = FALSE

\* DWT_CYCCNT counts one CPU cycle, wrapping at its width
Cyccnt_Tick ==
    /\ pins' = [pins EXCEPT !.cyccnt = (@ + 1) % CyccntModulus]
    /\ L' = IF pc = << >> \/ Head(pc) /= "DelayUs_Wait" THEN L
            ELSE [L EXCEPT !.elapsed = Min(@ + 1, ElapsedCap),
                           !.sincePoll = Min(@ + 1, CyccntModulus - L.delayTicks + 1)]
    /\ UNCHANGED << pc, engineVars, ghostVars, worldVars, fault >>

\* GRID_DelayUs(us)
Delay_Call ==
    /\ InMain
    /\ \E us \in 0 .. MaxUs : L' = [L EXCEPT !.us = us]
    /\ pc' = << "GRID_DelayUs", "Delay_Returned" >>
    /\ UNCHANGED << pins, engineVars, ghostVars, worldVars, fault >>

\* faulty variant: the deadline compared as an absolute counter value
DelayUs_Wait_Absolute ==
    /\ At("DelayUs_Wait")
    /\ IF pins.cyccnt < (L.startTick + L.delayTicks) % CyccntModulus
       THEN L' = [L EXCEPT !.sincePoll = 0] /\ UNCHANGED pc
       ELSE UNCHANGED L /\ Return
    /\ UNCHANGED << pins, engineVars, ghostVars, worldVars, fault >>

\* startTick = DWT_CYCCNT; delayTicks = us * (SystemCoreClock / 1000000), in uint32_t
GRID_DelayUs ==
    /\ At("GRID_DelayUs")
    /\ L' = [L EXCEPT !.startTick = pins.cyccnt,
                      !.delayTicks = (L.us * TICKS_PER_US) % CyccntModulus,
                      !.elapsed = 0, !.sincePoll = 0]
    /\ Goto("DelayUs_Wait")
    /\ UNCHANGED << pins, engineVars, ghostVars, worldVars, fault >>

\* while ((DWT_CYCCNT - startTick) < delayTicks) { }, one read of the counter
DelayUs_Wait ==
    /\ At("DelayUs_Wait")
    /\ IF (pins.cyccnt - L.startTick) % CyccntModulus < L.delayTicks
       THEN L' = [L EXCEPT !.sincePoll = 0] /\ UNCHANGED pc
       ELSE UNCHANGED L /\ Return
    /\ UNCHANGED << pins, engineVars, ghostVars, worldVars, fault >>

\* the delay is over, the caller goes on
Delay_Returned ==
    /\ At("Delay_Returned")
    /\ L' = L0
    /\ Return
    /\ UNCHANGED << pins, engineVars, ghostVars, worldVars, fault >>

NextDelay == Cyccnt_Tick \/ Delay_Call \/ GRID_DelayUs \/ DelayUs_Wait \/ Delay_Returned

SpecDelay == InitDelay /\ [][NextDelay]_vars

\* the counter keeps advancing and the processor keeps executing the loop
SpecDelayLive ==
    /\ SpecDelay
    /\ WF_vars(Cyccnt_Tick) /\ WF_vars(DelayUs_Wait) /\ WF_vars(GRID_DelayUs)

-----------------------------------------------------------------------------
(* The ADS1220 driver on its own: ADS1220_Init, then any function of       *)
(* ads1220.c in any order, with any chip index up to one past the range    *)
(* and the first, the last and an out-of-range channel.                    *)

InitDrv == Init /\ variant = "ADS24"

\* RREG: the register of the selected chip (register 0 as last written, the
\* others as ADS1220_Configure wrote them, 0 after a reset)
SpiRreg(a, reg) ==
    IF Cardinality(Selected(a)) /= 1 THEN 0
    ELSE LET d == a.dev[CHOOSE i \in Selected(a) : TRUE] IN
         IF reg = 0 THEN d.reg0 ELSE IF reg \in d.cfg THEN InitReg(reg) ELSE 0

\* ADS1220_ReadRegister(chipIndex, reg): chip select low
ADS1220_ReadRegister ==
    /\ At("ADS1220_ReadRegister")
    /\ ads' = CsWrite(ads, L.chipIndex, 0)
    /\ Goto("ReadRegister_Rx")
    /\ UNCHANGED << L, pins, engineVars, ghostVars, hostVars, fault >>

\* HAL_SPI_Transmit(RREG | (reg << 2)); HAL_SPI_Receive(&rxData, 1)
ReadRegister_Rx ==
    /\ At("ReadRegister_Rx")
    /\ L' = [L EXCEPT !.value = SpiRreg(ads, L.reg)]
    /\ Goto("ReadRegister_High")
    /\ UNCHANGED << pins, ads, engineVars, ghostVars, hostVars, fault >>

\* chip select high; return rxData
ReadRegister_High ==
    /\ At("ReadRegister_High")
    /\ ads' = CsWrite(ads, L.chipIndex, 1)
    /\ L' = [L EXCEPT !.reg = 0]
    /\ Return
    /\ UNCHANGED << pins, engineVars, ghostVars, hostVars, fault >>

\* ADS1220_Init(hspi)
DrvCall_Init ==
    /\ InMain /\ variant = "ADS24"
    /\ pc' = << "ADS1220_Init", "Mux_Ready" >>
    /\ UNCHANGED << L, pins, engineVars, ghostVars, worldVars, fault >>

\* ADS1220_Reset(i), ADS1220_Configure(i, ...), ADS1220_SetChannel(i, c),
\* ADS1220_ReadData(i), ADS1220_ReadRegister(i, r), ADS1220_ReadAllColumns(values)
DrvCall ==
    /\ InMain /\ booted /\ variant = "ADS24"
    /\ \/ \E i \in 0 .. ADS1220_NUM_CHIPS :
             \/ /\ L' = [L EXCEPT !.chipIndex = i, !.cmd = ADS1220_CMD_RESET]
                /\ pc' = << "ADS1220_SendCommand", "Drv_Returned" >>
             \/ /\ L' = [L EXCEPT !.chipIndex = i, !.ch = 0]
                /\ pc' = << "ADS1220_Configure", "Drv_Returned" >>
             \/ /\ L' = [L EXCEPT !.chipIndex = i]
                /\ pc' = << "ADS1220_ReadData", "Drv_Returned" >>
             \/ \E c \in {0, ADS1220_CHANNELS - 1, 4} :
                   /\ L' = [L EXCEPT !.chipIndex = i, !.chan = c]
                   /\ pc' = << "ADS1220_SetChannel", "Drv_Returned" >>
             \/ \E r \in Regs :
                   /\ L' = [L EXCEPT !.chipIndex = i, !.reg = r]
                   /\ pc' = << "ADS1220_ReadRegister", "Drv_Returned" >>
       \/ /\ L' = [L EXCEPT !.chip = 0, !.ch = 0]
          /\ pc' = << "ADS1220_ReadAllColumns", "Drv_Returned" >>
    /\ UNCHANGED << pins, ads, engineVars, ghostVars, hostVars, fault >>

\* the call has returned to the caller
Drv_Returned ==
    /\ At("Drv_Returned")
    /\ L' = L0
    /\ Return
    /\ UNCHANGED << pins, ads, engineVars, ghostVars, hostVars, fault >>

NextDrv ==
    \/ DrvCall_Init \/ Mux_Ready \/ DrvCall \/ Drv_Returned
    \/ ADS1220_ReadRegister \/ ReadRegister_Rx \/ ReadRegister_High
    \/ AdsDriver

SpecDrv == InitDrv /\ [][NextDrv]_vars

-----------------------------------------------------------------------------
(* The oversampling ADC read under a changing load: GRID_Init, then        *)
(* GRID_ReadCell for any cell, while the force on the grid may change      *)
(* between two conversions of one GRID_ReadADC.                            *)

\* the force on the grid changes while GRID_ReadADC is between conversions
Adc_Noise ==
    /\ At("GRID_ReadADC")
    /\ env' \in Envs \ {env}
    /\ UNCHANGED << variant, booted, pc, L, pins, ads, engineVars, ghostVars, fault >>

NextAdc ==
    \/ Main_Init \/ Main_ReadCell \/ Main_GotCell \/ Stimulus \/ Adc_Noise
    \/ MuxDriver \/ MuxInit \/ ReadCell

SpecAdc == InitMux /\ [][NextAdc]_vars

-----------------------------------------------------------------------------
(* The addressing functions of both builds on their own: the multiplexer   *)
(* driver as above, and for the 24-bit engine GRID_DisableAllRows (as      *)
(* GRID_Init calls it) followed by GRID_EnableRow and GRID_DisableAllRows  *)
(* in any order, with any row up to one past the range.                    *)

\* GRID_DisableAllRows(), the row part of GRID_Init
RowCall_Init ==
    /\ InMain /\ variant = "ADS24"
    /\ pc' = << "GRID_DisableAllRows", "Mux_Ready" >>
    /\ UNCHANGED << L, pins, engineVars, ghostVars, worldVars, fault >>

\* GRID_EnableRow(a), GRID_DisableAllRows()
RowCall ==
    /\ InMain /\ booted /\ variant = "ADS24"
    /\ \/ \E a \in 0 .. ADS_GRID_NUM_ROWS :
             /\ L' = [L EXCEPT !.arg = a, !.row = a]
             /\ pc' = << "GRID_EnableRow", "Mux_RowSelected" >>
       \/ /\ UNCHANGED L
          /\ pc' = << "GRID_DisableAllRows", "Mux_Returned" >>
    /\ UNCHANGED << pins, engineVars, ghostVars, worldVars, fault >>

\* deselect_all twice in a row: MUX_DisableAllRowMux(); MUX_DisableAllColMux();
\* and the same again, or GRID_DisableAllRows(); GRID_DisableAllRows();
DeselectTwice ==
    /\ InMain /\ booted
    /\ pc' = IF variant = "MUX12"
             THEN << "MUX_DisableAllRowMux", "MUX_DisableAllColMux", "Deselected_Once",
                     "MUX_DisableAllRowMux", "MUX_DisableAllColMux", "Deselected_Twice" >>
             ELSE << "GRID_DisableAllRows", "Deselected_Once",
                     "GRID_DisableAllRows", "Deselected_Twice" >>
    /\ UNCHANGED << L, pins, engineVars, ghostVars, worldVars, fault >>

\* the first, the second deselect_all has returned
Deselect_Returned ==
    /\ At("Deselected_Once") \/ At("Deselected_Twice")
    /\ Return
    /\ UNCHANGED << L, pins, engineVars, ghostVars, worldVars, fault >>

NextAddr ==
    \/ NextMux
    \/ RowCall_Init \/ RowCall \/ DeselectTwice \/ Deselect_Returned
    \/ GRID_EnableRow \/ EnableRow_Set \/ GRID_DisableAllRows

SpecAddr == Init /\ [][NextAddr]_vars

-----------------------------------------------------------------------------
(* Calibration under a changing load: main() calls GRID_Init, then          *)
(* GRID_Calibrate any number of times; the pressure pattern may change      *)
(* between two sweeps of a calibration, so the readings that are averaged   *)
(* for one cell differ, and a calibration starts from the baseline that the *)
(* previous one left.                                                       *)

\* the load changes while GRID_Calibrate is between two sweeps
Cal_Stimulus ==
    /\ (At("Cal_Row") \/ At("ACal_Row")) /\ L.row = 0
    /\ env' \in Envs \ {env}
    /\ UNCHANGED << variant, booted, pc, L, pins, ads, engineVars, ghostVars, fault >>

NextCal ==
    \/ Main_Init \/ Main_Calibrate \/ Cal_Stimulus
    \/ MuxDriver \/ MuxInit \/ MuxCalibrate
    \/ AdsDriver
    \/ GRID_DisableAllRows \/ GRID_EnableRow \/ EnableRow_Set
    \/ GRID_Init_Ads \/ GRID_Init_Rows
    \/ GRID_Calibrate_Ads \/ ACal_Row \/ ACal_Settle \/ ACal_Accumulate

SpecCal == Init /\ [][NextCal]_vars

-----------------------------------------------------------------------------
(* main() as it is written: GRID_Init, GRID_Calibrate if g_DoCalibration    *)
(* is set, then GRID_ScanLoop forever (here: until MaxFrames frames have    *)
(* been scanned).  The pressure pattern may change between two iterations.  *)

\* GRID_Init(&hadc1, &huart2), once
Loop_Init == ~booted /\ Main_Init

\* if (g_DoCalibration) GRID_Calibrate(), before the loop
Loop_Calibrate ==
    /\ ~s_IsCalibrated /\ g_GridData.frameCount = 0 /\ uart = << >>
    /\ Main_Calibrate

\* while (1) GRID_ScanLoop()
Main_ScanLoop ==
    /\ booted /\ g_GridData.frameCount < MaxFrames
    /\ Enter("GRID_ScanLoop") /\ UNCHANGED L

\* faulty variant: two scans for one packet
GRID_ScanLoop_TwoScans ==
    /\ At("GRID_ScanLoop")
    /\ pc' = << "GRID_ScanMatrix", "GRID_ScanMatrix", "GRID_TransmitData" >> \o Tail(pc)
    /\ UNCHANGED << L, pins, engineVars, ghostVars, worldVars, fault >>

\* GRID_ScanLoop: GRID_ScanMatrix(); GRID_TransmitData();
GRID_ScanLoop ==
    /\ At("GRID_ScanLoop")
    /\ pc' = << "GRID_ScanMatrix", "GRID_TransmitData" >> \o Tail(pc)
    /\ UNCHANGED << L, pins, engineVars, ghostVars, worldVars, fault >>

NextLoop ==
    \/ Loop_Init \/ Loop_Calibrate \/ Main_ScanLoop \/ GRID_ScanLoop \/ Stimulus
    \/ MuxDriver \/ MuxEngine \/ AdsDriver \/ AdsEngine \/ Transmit

SpecLoop == Init /\ [][NextLoop]_vars

\* the same program on a processor that keeps executing: every blocking call
\* (conversion, SPI transfer, delay, UART write) returns, so that a step that
\* can be taken is eventually taken
SpecLoopLive == SpecLoop /\ WF_vars(NextLoop)

-----------------------------------------------------------------------------
(* Properties.                                                             *)

\* the scan is past its last row: only the de-addressing and the bookkeeping remain
ScanEnding ==
    /\ pc /= << >>
    /\ pc[Len(pc)] \in {"Scan_DisableCol", "Scan_Finish"}

\* cells for which the running scan has already stored a value
ScanStored ==
    IF g_GridData.state /= "Scanning" THEN {}
    ELSE IF ScanEnding THEN Cells(variant)
    ELSE { cell \in Cells(variant) :
             cell[1] < L.row \/ (cell[1] = L.row /\ cell[2] < L.col) }

Max0(x) == IF x > 0 THEN x ELSE 0

\* values below the noise threshold of the build become 0
Floor0(x) ==
    IF variant = "MUX12" THEN (IF x < 50 THEN 0 ELSE x) ELSE (IF x < 5000 THEN 0 ELSE x)

FullScale == IF variant = "MUX12" THEN 4095 ELSE 16777215

\* the 16-bit frame value of a corrected value: itself in the 12-bit engine,
\* shifted right by 8 in the 24-bit engine
Wire(x) == IF variant = "MUX12" THEN x ELSE x \div 256

\* C1: at every ADC conversion of the multiplexed engine for indices (row, col)
\* the enabled row mux is row / MUX_CHANNELS_PER_CHIP, the enabled column mux
\* is col / MUX_CHANNELS_PER_CHIP, and the channel both route, the value of
\* the shared select bus, is row % MUX_CHANNELS_PER_CHIP for the row mux and
\* col % MUX_CHANNELS_PER_CHIP for the column mux.
C1_AddressedCell ==
    At("GRID_ReadADC") =>
        /\ EnabledRowMuxes(pins) = { L.row \div MUX_CHANNELS_PER_CHIP }
        /\ EnabledColMuxes(pins) = { L.col \div MUX_CHANNELS_PER_CHIP }
        /\ SelValue(pins) = L.row % MUX_CHANNELS_PER_CHIP
        /\ SelValue(pins) = L.col % MUX_CHANNELS_PER_CHIP

\* C2, as stated: after an uncalibrated scan every stored value is
\* max(0, full scale - raw) with values below the noise threshold replaced
\* by 0, in both engines.
C2_Unscaled ==
    \A cell \in ScanStored :
        ~s_IsCalibrated =>
            g_GridData.data[cell] = Floor0(Max0(FullScale - rawRead[cell]))

\* C2, amended: after an uncalibrated scan every stored value is
\* max(0, full scale - raw) with values below the noise threshold replaced
\* by 0, and in the 24-bit engine then shifted right by ADC_SCALE_SHIFT (8).
C2_UncalibratedScan ==
    \A cell \in ScanStored :
        ~s_IsCalibrated =>
            g_GridData.data[cell] = Wire(Floor0(Max0(FullScale - rawRead[cell])))

\* the 24-bit engine has stored a scaled value, and the 12-bit engine the
\* value 1095 of the reading 3000
C2_Witness ==
    /\ ~s_IsCalibrated
    /\ << 0, 0 >> \in ScanStored
    /\ \/ variant = "ADS24" /\ rawRead[<< 0, 0 >>] = 12288000
                            /\ g_GridData.data[<< 0, 0 >>] = 17535
       \/ variant = "MUX12" /\ rawRead[<< 0, 0 >>] = 3000
                            /\ g_GridData.data[<< 0, 0 >>] = 1095

\* C3: after a calibrated scan the value of every cell is the saturating
\* difference max(0, baseline - raw) with values below the noise threshold
\* replaced by 0 (on the wire scale of the build); it never exceeds the
\* baseline, so it is never a wrapped-around difference, and it is 0
\* whenever raw >= baseline.
C3_CalibratedScan ==
    \A cell \in ScanStored :
        s_IsCalibrated =>
            LET base == g_GridData.baseline[cell]
                raw  == rawRead[cell]
            IN  /\ g_GridData.data[cell] = Wire(Floor0(Max0(base - raw)))
                /\ g_GridData.data[cell] <= base
                /\ (raw >= base => g_GridData.data[cell] = 0)

\* a calibrated cell was stored whose reading lies above its baseline
C3_Witness ==
    /\ s_IsCalibrated
    /\ \E cell \in ScanStored :
          /\ rawRead[cell] > g_GridData.baseline[cell]
          /\ g_GridData.baseline[cell] > 0
          /\ g_GridData.data[cell] = 0

\* offset of the cell in the packet
PayloadOffset(cell) == 2 + 2 * (cell[1] * NumCols(variant) + cell[2])

\* C4: the packet handed to the UART carries the frame in row-major order as
\* 16-bit little-endian values: the bytes at offsets 2 + 2*(r*cols + c) and
\* 2 + 2*(r*cols + c) + 1 are the low and the high byte of data[r][c], and
\* decoding them gives data[r][c] back.
C4_PayloadLayout ==
    At("Tx_Finish") =>
        \A cell \in Cells(variant) :
            LET lo == uart[PayloadOffset(cell) + 1]
                hi == uart[PayloadOffset(cell) + 2]
            IN  /\ lo = g_GridData.data[cell] % 256
                /\ hi = g_GridData.data[cell] \div 256
                /\ lo + 256 * hi = g_GridData.data[cell]

\* a frame was sent in which two cells differ and one has distinct non-zero bytes
C4_Witness ==
    /\ At("Tx_Finish")
    /\ \E a, b \in Cells(variant) :
          /\ g_GridData.data[a] /= g_GridData.data[b]
          /\ g_GridData.data[a] \div 256 > 0
          /\ g_GridData.data[a] % 256 > 0
          /\ g_GridData.data[a] \div 256 /= g_GridData.data[a] % 256

RECURSIVE SumBytes(_, _, _)
\* sum of the bytes s[from] .. s[to]
SumBytes(s, from, to) ==
    IF from > to THEN 0
    ELSE IF from = to THEN s[from]
    ELSE LET mid == (from + to) \div 2
         IN  SumBytes(s, from, mid) + SumBytes(s, mid + 1, to)

PayloadEnd == 2 + 2 * NumRows(variant) * NumCols(variant)

\* C5: the two bytes after the payload are, low byte first, the sum of all
\* payload bytes modulo 65536.
C5_Checksum ==
    At("Tx_Finish") =>
        uart[PayloadEnd + 1] + 256 * uart[PayloadEnd + 2]
            = SumBytes(uart, 3, PayloadEnd) % 65536

\* the frame of all 0xFFFF was sent, and the sum of its payload bytes exceeds 65535
C5_Witness ==
    /\ At("Tx_Finish")
    /\ \A cell \in Cells(variant) : g_GridData.data[cell] = 65535
    /\ SumBytes(uart, 3, PayloadEnd) > 65535

\* C6: GRID_TransmitData hands the UART exactly 2 + rows*cols*2 + 4 bytes;
\* the write index is 2 at the first cell, advances by 2 per cell, is exactly
\* the packet size after the terminator, and no write falls outside the buffer.
C6_PacketSize ==
    /\ ~txOob
    /\ At("Tx_Cell") => L.idx = 2 + 2 * (L.row * NumCols(variant) + L.col)
    /\ At("Tx_Footer") => L.idx = PayloadEnd
    /\ (At("Tx_Uart") \/ At("Tx_Finish")) => L.idx = PayloadEnd + 4
    /\ uart /= << >> => Len(uart) = 2 + NumRows(variant) * NumCols(variant) * 2 + 4

\* a packet was handed over with the index at the end of the buffer
C6_Witness ==
    /\ At("Tx_Finish")
    /\ L.idx = PayloadEnd + 4
    /\ Len(uart) = PayloadEnd + 4
    /\ g_GridData.frameCount > 0

\* C7: once GRID_Init has run, transmit-buffer bytes 0 and 1 hold 0xAA 0x55
\* at every instant, and every packet handed to the UART begins with
\* 0xAA 0x55 and ends with 0x0D 0x0A.
C7_SyncAndTerminator ==
    booted =>
        /\ s_TxBuffer[0] = 170 /\ s_TxBuffer[1] = 85
        /\ uart /= << >> =>
              /\ uart[1] = 170 /\ uart[2] = 85
              /\ uart[Len(uart) - 1] = 13 /\ uart[Len(uart)] = 10

\* a framed packet was sent after a calibration and a scan
C7_Witness ==
    /\ At("Tx_Finish")
    /\ s_IsCalibrated
    /\ g_GridData.frameCount > 0
    /\ uart[1] = 170 /\ uart[Len(uart)] = 10

\* C8: when GRID_Init completes, the engine is uncalibrated: the calibrated
\* flag is clear, so that the next scan inverts against full scale.
C8_InitUncalibrated ==
    At("GRID_Init_Tx") => ~s_IsCalibrated

\* C9: when GRID_Calibrate has averaged its sweeps of a source that returned
\* the same value for a cell in every sweep, the baseline of the cell is
\* exactly that value.
C9_ConstantSource ==
    At("Cal_SetFlag") =>
        \A cell \in Cells(variant) : g_GridData.baseline[cell] = calRead[cell]

\* a calibration has averaged cells of different non-zero constant readings
C9_Witness ==
    /\ At("Cal_SetFlag")
    /\ \E a, b \in Cells(variant) :
          /\ calRead[a] /= calRead[b]
          /\ calRead[a] > 0 /\ calRead[b] > 0
          /\ g_GridData.baseline[a] = calRead[a]

\* C10: at the end of a scan that follows a calibration, every cell whose
\* reading equals the one it returned during the calibration has data 0.
C10_UnchangedGrid ==
    (At("Scan_Finish") /\ s_IsCalibrated) =>
        \A cell \in Cells(variant) :
            rawRead[cell] = calRead[cell] => g_GridData.data[cell] = 0

\* a scan ended on a grid unchanged since a calibration with readings below
\* full scale
C10_Witness ==
    /\ At("Scan_Finish") /\ s_IsCalibrated
    /\ \A cell \in Cells(variant) :
          rawRead[cell] = calRead[cell] /\ g_GridData.data[cell] = 0
    /\ \E cell \in Cells(variant) :
          /\ g_GridData.baseline[cell] > 0
          /\ g_GridData.baseline[cell] < FullScale

\* C11: with every baseline entry at full scale a calibrated scan stores, for
\* every raw reading in [0, ADC_MAX_VALUE], the value an uncalibrated scan
\* stores for the same reading: in both modes the stored value is the same
\* function of the reading alone.
C11_FullScaleBaseline ==
    \A cell \in ScanStored :
        (~s_IsCalibrated \/ g_GridData.baseline[cell] = FullScale) =>
            g_GridData.data[cell] = Wire(Floor0(Max0(FullScale - rawRead[cell])))

\* a calibrated scan against a full-scale baseline has stored a reading that
\* lies strictly inside the converter range
C11_Witness ==
    /\ s_IsCalibrated
    /\ \E cell \in ScanStored :
          /\ g_GridData.baseline[cell] = FullScale
          /\ rawRead[cell] > 0 /\ rawRead[cell] < FullScale
          /\ g_GridData.data[cell] > 0

C13_SelectedChip ==
    /\ (At("Mux_ColSelected") /\ L.col < GRID_NUM_COLS) =>
           /\ EnabledColMuxes(pins) = { L.col \div MUX_CHANNELS_PER_CHIP }
           /\ SelValue(pins) = L.col % MUX_CHANNELS_PER_CHIP
    /\ (At("Mux_RowSelected") /\ L.row < GRID_NUM_ROWS) =>
           /\ EnabledRowMuxes(pins) = { L.row \div MUX_CHANNELS_PER_CHIP }
           /\ SelValue(pins) = L.row % MUX_CHANNELS_PER_CHIP

\* row GPIOs of the direct-drive build that are high
RowsHigh == { r \in Rows("ADS24") : ads.rows[r] = 1 }

\* the running operation is a scan or a calibration
Sweeping == g_GridData.state \in {"Scanning", "Calibrating"}

\* the row loop of the multiplexed engine is between the selection of a row
\* and the write that energizes it
BeforeRowDrive ==
    \E i \in 1 .. Len(pc) : pc[i] \in {"Scan_Drive", "Cal_Drive"}

\* C14: at no instant of GRID_ScanMatrix or GRID_Calibrate are two rows
\* driven; while the next row is being selected the drive of the previous one
\* is already low; in the direct-drive build GRID_EnableRow(r) clears every
\* row before it sets row r, and leaves exactly row r high.
C14_OneRowDriven ==
    /\ (Sweeping /\ variant = "MUX12") => Cardinality(DrivenRows(pins)) <= 1
    /\ (Sweeping /\ variant = "ADS24") => Cardinality(RowsHigh) <= 1
    /\ (Sweeping /\ ~fault /\ BeforeRowDrive) => pins.rowDrive = 0
    /\ At("EnableRow_Set") => RowsHigh = {}
    /\ (At("AScan_Settle") \/ At("ACal_Settle")) => RowsHigh = { L.row }

\* the direct-drive scan has moved from row 0 to row 1, and row 1 alone is high
C14_Witness ==
    /\ variant = "ADS24" /\ g_GridData.state = "Scanning"
    /\ At("AScan_Settle") /\ L.row = 1
    /\ RowsHigh = {1}

\* C15: whenever a row iteration of GRID_ScanMatrix or GRID_Calibrate begins
\* to select its row, everything is de-selected: in the multiplexed engine
\* the row drive is low and every row and column mux is disabled, in the
\* direct-drive engine every row GPIO is low.
C15_DeselectPerRow ==
    /\ (Sweeping /\ At("MUX_SelectRow")) =>
           /\ pins.rowDrive = 0
           /\ EnabledRowMuxes(pins) = {}
           /\ EnabledColMuxes(pins) = {}
    /\ (Sweeping /\ At("GRID_EnableRow")) => RowsHigh = {}

\* the grid addresses nothing: row drive low and every multiplexer disabled
\* (12-bit engine), every row line low (24-bit engine)
Deselected ==
    IF variant = "MUX12"
    THEN pins.rowDrive = 0 /\ EnabledRowMuxes(pins) = {} /\ EnabledColMuxes(pins) = {}
    ELSE RowsHigh = {}

GridStates == { "Idle", "Scanning", "Calibrating", "Transmitting" }

\* the outermost call in progress is GRID_ReadCell
InReadCell == pc /= << >> /\ pc[Len(pc)] = "Main_GotCell"

\* C17: g_GridData.state is always one of the four defined values; it is
\* Idle whenever control is in the caller (after GRID_Init and between
\* operations); it only ever moves from Idle to the state of the operation
\* that starts and from that state back to Idle when the operation ends; and
\* no step of GRID_ReadCell changes it.
C17_StateMachine ==
    /\ [](g_GridData.state \in GridStates)
    /\ []((InMain \/ At("GRID_Init_Tx")) => g_GridData.state = "Idle")
    /\ [][ /\ (g_GridData'.state /= g_GridData.state)
                => \/ /\ g_GridData.state = "Idle"
                      /\ \/ At("GRID_ScanMatrix") /\ g_GridData'.state = "Scanning"
                         \/ At("GRID_Calibrate") /\ g_GridData'.state = "Calibrating"
                         \/ At("GRID_TransmitData") /\ g_GridData'.state = "Transmitting"
                   \/ /\ g_GridData'.state = "Idle"
                      /\ \/ At("Scan_Finish") /\ g_GridData.state = "Scanning"
                         \/ At("Cal_Idle") /\ g_GridData.state = "Calibrating"
                         \/ At("Tx_Finish") /\ g_GridData.state = "Transmitting"
          /\ (InReadCell \/ InReadCell') => g_GridData'.state = g_GridData.state
        ]_vars

\* a calibrated engine that has scanned is in the middle of a transmission
C17_Witness ==
    /\ g_GridData.state = "Transmitting" /\ At("Tx_Cell")
    /\ s_IsCalibrated /\ g_GridData.frameCount > 0

\* GRID_ReadCell is about to sample while the state is Idle
C17_WitnessReadCell ==
    /\ InReadCell /\ At("GRID_ReadADC") /\ g_GridData.state = "Idle"

\* every cell has been read in every sweep and holds the quotient of its sum
CalComplete ==
    \A cell \in Cells(variant) :
        /\ calSum.n[cell] = CALIBRATION_SAMPLES(variant)
        /\ g_GridData.baseline[cell] = calSum.sum[cell] \div CALIBRATION_SAMPLES(variant)

C19_BaselineMean ==
    (At("Cal_SetFlag") \/ At("Cal_Idle")) =>
        \A cell \in Cells(variant) :
            /\ calSum.n[cell] = CALIBRATION_SAMPLES(variant)
            /\ g_GridData.baseline[cell] * CALIBRATION_SAMPLES(variant) <= calSum.sum[cell]
            /\ calSum.sum[cell] < (g_GridData.baseline[cell] + 1) * CALIBRATION_SAMPLES(variant)

\* a re-calibration under a changing load: some cell had a different baseline
\* on entry and the sum of its readings is not a multiple of the sample count
C19_Witness ==
    /\ At("Cal_SetFlag") /\ s_IsCalibrated
    /\ \E cell \in Cells(variant) :
          /\ calSum.prior[cell] > 0
          /\ calSum.prior[cell] /= g_GridData.baseline[cell]
          /\ calSum.sum[cell] % CALIBRATION_SAMPLES(variant) /= 0

\* the next step triggers a conversion: HAL_ADC_Start in GRID_ReadADC, or the
\* byte of the START command on the SPI bus
ConversionTrigger ==
    At("GRID_ReadADC") \/ (At("SendCommand_Tx") /\ L.cmd = ADS1220_CMD_START)

\* C20: in both engines a conversion is only triggered when a settling delay
\* has passed since the most recent row selection and since the most recent
\* column or channel selection.
C20_SettledBeforeTrigger == ConversionTrigger => settled.row /\ settled.col

\* the part of C20 that the code keeps: a delay follows every row selection
\* before a conversion, and in the multiplexed engine every column selection
C20_RowSettled ==
    ConversionTrigger => settled.row /\ (variant = "MUX12" => settled.col)

\* C21: in the 24-bit engine the stored value of a cell is the corrected
\* value (saturating baseline difference or inversion), zeroed when the
\* full-width value is below ADC_NOISE_THRESHOLD, then shifted right by
\* ADC_SCALE_SHIFT; the shifted value needs no truncation to 16 bits, so a
\* frame value is 0 or lies in [ADC_NOISE_THRESHOLD >> 8, 65535].
C21_ShiftAfterThreshold ==
    variant = "ADS24" =>
        \A cell \in ScanStored :
            LET corrected == IF s_IsCalibrated
                             THEN Max0(g_GridData.baseline[cell] - rawRead[cell])
                             ELSE Max0(ADC_MAX_VALUE_24 - rawRead[cell])
                kept == IF corrected < ADC_NOISE_THRESHOLD_24 THEN 0 ELSE corrected
            IN  /\ kept \div (2 ^ ADC_SCALE_SHIFT) <= 65535
                /\ g_GridData.data[cell] = kept \div (2 ^ ADC_SCALE_SHIFT)
                /\ \/ g_GridData.data[cell] = 0
                   \/ g_GridData.data[cell] \in (ADC_NOISE_THRESHOLD_24 \div 256) .. 65535

\* a corrected value of exactly the threshold was stored as 5000 >> 8 = 19
C21_Witness ==
    /\ variant = "ADS24" /\ s_IsCalibrated
    /\ << 0, 0 >> \in ScanStored
    /\ g_GridData.baseline[<< 0, 0 >>] = 5000 /\ rawRead[<< 0, 0 >>] = 0
    /\ g_GridData.data[<< 0, 0 >>] = 19

\* an addressing function is entered with an index outside its range
OutOfRangeCall ==
    \/ At("MUX_SelectRow") /\ L.arg >= GRID_NUM_ROWS
    \/ At("MUX_SelectCol") /\ L.arg >= GRID_NUM_COLS
    \/ At("MUX_EnableRowMux") /\ L.muxIndex >= MUX_ROW_COUNT
    \/ At("MUX_EnableColMux") /\ L.muxIndex >= MUX_COL_COUNT
    \/ At("GRID_EnableRow") /\ L.arg >= ADS_GRID_NUM_ROWS

\* C22: an addressing function entered with an out-of-range index returns in
\* its first step, and that step writes no pin: the select bus, every enable
\* pin, the row drive and every row output stay as they were.
C22_OutOfRangeNoOp ==
    [][ OutOfRangeCall => /\ pins' = pins
                          /\ ads' = ads
                          /\ pc' = Tail(pc)
                          /\ fault' = fault
      ]_vars

\* MUX_SelectRow(GRID_NUM_ROWS) has returned and the row mux and the column
\* mux that were enabled before the call still are
C22_Witness ==
    /\ At("Mux_RowSelected") /\ L.row = GRID_NUM_ROWS
    /\ EnabledRowMuxes(pins) = {1} /\ EnabledColMuxes(pins) = {0}
    /\ SelValue(pins) = 1

\* GRID_EnableRow(GRID_NUM_ROWS) has returned and row 1 is still driven
C22_WitnessRow ==
    /\ variant = "ADS24"
    /\ At("Mux_RowSelected") /\ L.row = ADS_GRID_NUM_ROWS
    /\ RowsHigh = {1}

\* GRID_ReadCell is entered with a row or a column outside the grid
ReadCellOutOfRange ==
    At("GRID_ReadCell") /\ (L.row >= GRID_NUM_ROWS \/ L.col >= GRID_NUM_COLS)

\* C23: GRID_ReadCell entered with an out-of-range row or column returns 0 in
\* its first step; that step drives no row, writes no enable or select pin,
\* triggers no conversion, and leaves state, data, baseline, frameCount and
\* the calibrated flag as they were.
C23_ReadCellOutOfRange ==
    [][ ReadCellOutOfRange => /\ retval' = 0
                              /\ pc' = Tail(pc)
                              /\ pins' = pins
                              /\ settled' = settled
                              /\ g_GridData' = g_GridData
                              /\ s_IsCalibrated' = s_IsCalibrated
                              /\ fault' = fault
      ]_vars

\* GRID_ReadCell(0, GRID_NUM_COLS) is entered on a calibrated engine that
\* holds a frame with a pressed cell
C23_Witness ==
    /\ ReadCellOutOfRange /\ L.col = GRID_NUM_COLS
    /\ s_IsCalibrated /\ g_GridData.frameCount > 0
    /\ \E cell \in Cells(variant) : g_GridData.data[cell] > 0

\* the payload of the packet p is the little-endian image of the frame d
PacketOf(p, d) ==
    \A cell \in Cells(variant) :
        p[PayloadOffset(cell) + 1] + 256 * p[PayloadOffset(cell) + 2] = d[cell]

\* C24: in the main loop a scan only starts as the first half of
\* GRID_ScanLoop, with the transmission as what follows it; the step that
\* completes a scan leaves GRID_TransmitData as the next thing to run; a
\* transmission only starts there and hands exactly one packet, the image of
\* the frame just scanned, to the UART before control returns to the loop;
\* and no cell of data changes while the state is Transmitting.
C24_ScanThenTransmit ==
    [][ /\ (g_GridData.state = "Idle" /\ g_GridData'.state = "Scanning")
              => pc = << "GRID_ScanMatrix", "GRID_TransmitData" >>
        /\ (g_GridData.state = "Scanning" /\ g_GridData'.state = "Idle")
              => pc' = << "GRID_TransmitData" >>
        /\ (g_GridData.state = "Idle" /\ g_GridData'.state = "Transmitting")
              => pc = << "GRID_TransmitData" >>
        /\ (uart' /= uart)
              => /\ g_GridData.state = "Transmitting" /\ pc = << "Tx_Uart" >>
                 /\ PacketOf(uart', g_GridData.data)
        /\ (g_GridData.state = "Transmitting" /\ g_GridData'.state = "Idle")
              => /\ pc' = << >>
                 /\ PacketOf(uart, g_GridData.data)
        /\ (g_GridData.state = "Transmitting") => g_GridData'.data = g_GridData.data
        /\ (g_GridData'.data /= g_GridData.data)
              => g_GridData.state = "Scanning" \/ At("GRID_Init")
      ]_vars

\* the second iteration of the loop has sent the packet of its frame, in
\* which a cell is pressed
C24_Witness ==
    /\ At("Tx_Finish") /\ g_GridData.state = "Transmitting"
    /\ g_GridData.frameCount = MaxFrames
    /\ PacketOf(uart, g_GridData.data)
    /\ \E cell \in Cells(variant) : g_GridData.data[cell] > 255

\* the next step puts the START command on the SPI bus
StartCommand == At("SendCommand_Tx") /\ L.cmd = ADS1220_CMD_START

\* C25: when a START command is sent, the one chip that receives it is the
\* chip (L.chip) of the column being read; it has been reset and has had
\* registers 0 to 3 written since; and its register 0 was written after its
\* last conversion and selects the single-ended input of channel L.ch.
C25_ConfiguredBeforeStart ==
    StartCommand =>
        /\ booted
        /\ L.chipIndex = L.chip
        /\ Selected(ads) = { L.chip }
        /\ LET d == ads.dev[L.chip]
           IN  /\ d.rst /\ d.cfg = Regs
               /\ d.armed
               /\ d.reg0 = ADS1220_MUX_AIN0_AVSS + 16 * L.ch + ADS1220_PGA_BYPASS

\* the conversion of the last channel of the last chip is about to start,
\* after earlier conversions on that chip
C25_Witness ==
    /\ StartCommand
    /\ L.chip = ADS1220_NUM_CHIPS - 1 /\ L.ch = ADS1220_CHANNELS - 1
    /\ ads.dev[L.chip].conv > 0
    /\ ads.dev[L.chip].armed
    /\ g_GridData.frameCount > 0

\* the second of two consecutive deselect_all is running or has just returned
SecondDeselect ==
    /\ \E i \in 1 .. Len(pc) : pc[i] = "Deselected_Twice"
    /\ \A i \in 1 .. Len(pc) : pc[i] /= "Deselected_Once"

\* C26: once deselect_all has been performed, a second deselect_all right
\* after it changes nothing: no step of it alters an enable pin, the select
\* bus, the row drive or a row output, in either build, and both leave every
\* multiplexer disabled (every row output low).
C26_DeselectIdempotent ==
    /\ [](SecondDeselect =>
            IF variant = "MUX12"
            THEN EnabledRowMuxes(pins) = {} /\ EnabledColMuxes(pins) = {}
            ELSE RowsHigh = {})
    /\ [][ SecondDeselect => pins' = pins /\ ads' = ads ]_vars

\* the second deselect_all has returned on a grid whose select bus still
\* shows the channel of an earlier selection
C26_Witness ==
    /\ At("Deselected_Twice") /\ variant = "MUX12"
    /\ SelValue(pins) = 1
    /\ EnabledRowMuxes(pins) = {} /\ EnabledColMuxes(pins) = {}

\* the same for the row outputs of the 24-bit engine
C26_WitnessRows == At("Deselected_Twice") /\ variant = "ADS24" /\ RowsHigh = {}

\* 0, or a value from the noise threshold up to full scale of the 12-bit engine
InRange12(x) == x = 0 \/ x \in ADC_NOISE_THRESHOLD_12 .. ADC_MAX_VALUE_12

\* C27: in the 12-bit engine, whatever GRID_Init, GRID_Calibrate,
\* GRID_ScanMatrix and GRID_ReadCell calls have run, every entry of data and
\* the value GRID_ReadCell returns are 0 or lie in [ADC_NOISE_THRESHOLD,
\* ADC_MAX_VALUE]; a baseline that is not being accumulated lies in
\* [0, ADC_MAX_VALUE].
C27_DataRange12 ==
    variant = "MUX12" =>
        /\ \A cell \in Cells(variant) : InRange12(g_GridData.data[cell])
        /\ InRange12(retval)
        /\ g_GridData.state /= "Calibrating" =>
              \A cell \in Cells(variant) : g_GridData.baseline[cell] \in 0 .. ADC_MAX_VALUE_12

\* GRID_ReadCell has returned a pressed value on a calibrated engine whose
\* frame holds a value strictly between threshold and full scale
C27_Witness ==
    /\ variant = "MUX12" /\ s_IsCalibrated
    /\ At("Main_GotCell") /\ retval \in ADC_NOISE_THRESHOLD_12 .. ADC_MAX_VALUE_12
    /\ \E cell \in Cells(variant) :
          g_GridData.data[cell] \in ADC_NOISE_THRESHOLD_12 .. (ADC_MAX_VALUE_12 - 1)

C28_CompletionOrFault ==
    /\ (g_GridData.state = "Scanning") ~> (g_GridData.state = "Idle" \/ fault)
    /\ (g_GridData.state = "Calibrating") ~> (g_GridData.state = "Idle" \/ fault)
    /\ (g_GridData.state = "Transmitting") ~> (g_GridData.state = "Idle")

\* the operation is entered or running
InTransmit  == At("GRID_TransmitData") \/ g_GridData.state = "Transmitting"
InScan      == At("GRID_ScanMatrix") \/ g_GridData.state = "Scanning"
InCalibrate == At("GRID_Calibrate") \/ g_GridData.state = "Calibrating"

\* C29: no step of GRID_TransmitData changes data, baseline, frameCount,
\* lastScanTimeMs or the calibrated flag; no step of GRID_ScanMatrix changes
\* baseline or the calibrated flag; no step of GRID_Calibrate changes data,
\* frameCount or lastScanTimeMs; and the baseline changes only in a step of
\* GRID_Calibrate or in the step of GRID_Init that zeroes it.
C29_FrameConditions ==
    [][ /\ InTransmit => /\ g_GridData'.data = g_GridData.data
                         /\ g_GridData'.baseline = g_GridData.baseline
                         /\ g_GridData'.frameCount = g_GridData.frameCount
                         /\ g_GridData'.lastScanTimeMs = g_GridData.lastScanTimeMs
                         /\ s_IsCalibrated' = s_IsCalibrated
        /\ InScan => /\ g_GridData'.baseline = g_GridData.baseline
                     /\ s_IsCalibrated' = s_IsCalibrated
        /\ InCalibrate => /\ g_GridData'.data = g_GridData.data
                          /\ g_GridData'.frameCount = g_GridData.frameCount
                          /\ g_GridData'.lastScanTimeMs = g_GridData.lastScanTimeMs
        /\ (g_GridData'.baseline /= g_GridData.baseline)
              => \/ InCalibrate
                 \/ At("GRID_Init") /\ g_GridData'.baseline = ZeroMatrix(variant)
      ]_vars

\* a transmission is under way on a calibrated engine that has a non-zero
\* baseline, a frame with a pressed cell and a time stamp
C29_Witness ==
    /\ At("Tx_Footer") /\ s_IsCalibrated
    /\ g_GridData.frameCount = MaxFrames /\ g_GridData.lastScanTimeMs = MaxTick
    /\ \E cell \in Cells(variant) : g_GridData.baseline[cell] > 0
    /\ \E cell \in Cells(variant) : g_GridData.data[cell] > 0


AllColumnsOnce == [k \in 1 .. ADS1220_TOTAL_CHANNELS |-> k - 1]

\* a consumer of colValues is about to read colValues[L.col]
ConsumesColumn == At("AScan_Store") \/ At("ACal_Accumulate")

RECURSIVE SeqSum(_)
\* sum of the elements of a sequence
SeqSum(s) == IF s = << >> THEN 0 ELSE Head(s) + SeqSum(Tail(s))

SeqElems(s) == { s[k] : k \in 1 .. Len(s) }

\* GRID_ReadADC is about to take its last sample and return
ReadADCReturns == At("GRID_ReadADC") /\ L.si + 1 >= SCAN_ADC_SAMPLES

\* C32: GRID_ReadADC returns after exactly SCAN_ADC_SAMPLES conversions with
\* floor of a quarter of their sum; while it runs the sum is the sum of the
\* samples taken and never exceeds SCAN_ADC_SAMPLES * 4095, which is below
\* 2^31 - 1 and so within the range of uint32_t;
\* the result lies between the smallest and the largest sample, is at most
\* 4095, and is the sample value itself when all samples are equal.
C32_ReadADCMean ==
    /\ [](At("GRID_ReadADC")
            => /\ Len(L.samples) = L.si /\ L.si < SCAN_ADC_SAMPLES
               /\ L.sum = SeqSum(L.samples)
               /\ \A x \in SeqElems(L.samples) : x \in 0 .. ADC_MAX_VALUE_12
               /\ L.sum <= SCAN_ADC_SAMPLES * ADC_MAX_VALUE_12
               /\ SCAN_ADC_SAMPLES * ADC_MAX_VALUE_12 <= 2147483647)
    /\ [][ ReadADCReturns /\ L' /= L
             => LET all == Append(L.samples, SampleMux(pins, env)) IN
                /\ Len(all) = SCAN_ADC_SAMPLES
                /\ pc' = Tail(pc)
                /\ L'.raw = SeqSum(all) \div SCAN_ADC_SAMPLES
                /\ \E lo, hi \in SeqElems(all) : lo <= L'.raw /\ L'.raw <= hi
                /\ L'.raw <= ADC_MAX_VALUE_12
                /\ \A x \in SeqElems(all) : (SeqElems(all) = {x} => L'.raw = x)
         ]_vars

\* GRID_ReadADC is about to take its last sample after the load changed
\* between conversions: the samples differ and their sum is no multiple of 4
C32_Witness ==
    /\ ReadADCReturns
    /\ Cardinality(SeqElems(Append(L.samples, SampleMux(pins, env)))) > 1
    /\ SeqSum(Append(L.samples, SampleMux(pins, env))) % SCAN_ADC_SAMPLES /= 0

\* GRID_ReadADC is about to take its last sample of a constant pressed input
C32_WitnessConstant ==
    /\ ReadADCReturns
    /\ SeqElems(Append(L.samples, SampleMux(pins, env))) = {RawPattern("MUX12")[2]}


\* the largest value of a baseline element: uint16_t in the 12-bit engine;
\* uint32_t in the 24-bit engine, for which the bound used here is 2^31 - 1
BaselineElementMax(v) == IF v = "MUX12" THEN 65535 ELSE 2147483647

\* C33: while GRID_Calibrate runs, the exact sum of the readings added to a
\* cell never exceeds CALIBRATION_SAMPLES * ADC_MAX_VALUE, which fits the
\* baseline element, and the element holds that exact sum (or, once averaged,
\* its quotient): no partial sum wraps; and whenever state is Idle every
\* baseline entry is at most ADC_MAX_VALUE.
C33_NoAccumulatorWrap ==
    /\ CALIBRATION_SAMPLES(variant) * ADC_MAX_VALUE(variant) <= BaselineElementMax(variant)
    /\ g_GridData.state = "Calibrating"
          => \A cell \in Cells(variant) :
                /\ calSum.sum[cell] <= calSum.n[cell] * ADC_MAX_VALUE(variant)
                /\ calSum.n[cell] <= CALIBRATION_SAMPLES(variant)
                /\ g_GridData.baseline[cell] \in
                      { calSum.sum[cell], calSum.sum[cell] \div CALIBRATION_SAMPLES(variant) }
    /\ g_GridData.state = "Idle"
          => \A cell \in Cells(variant) : g_GridData.baseline[cell] <= ADC_MAX_VALUE(variant)

\* the last sweep has added a full-scale reading to a cell: the accumulator
\* holds CALIBRATION_SAMPLES * ADC_MAX_VALUE
C33_Witness ==
    /\ g_GridData.state = "Calibrating"
    /\ \E cell \in Cells(variant) :
          /\ calSum.n[cell] = CALIBRATION_SAMPLES(variant)
          /\ g_GridData.baseline[cell] = CALIBRATION_SAMPLES(variant) * ADC_MAX_VALUE(variant)


\* control is between the chip-select-low and the chip-select-high of an SPI
\* transaction; control is at the chip-select-high that ends one
InTransfer ==
    \/ At("SendCommand_Tx") \/ At("WriteRegister_Tx") \/ At("ReadData_Rx") \/ At("ReadRegister_Rx")
AtRelease ==
    \/ At("SendCommand_High") \/ At("WriteRegister_High") \/ At("ReadData_High")
    \/ At("ReadRegister_High")

\* C34: once ADS1220_Init has returned, at most one chip select is low at any
\* time; none is low outside the SPI transactions of ADS1220_SendCommand,
\* ADS1220_WriteRegister, ADS1220_ReadRegister and ADS1220_ReadData; during a
\* transaction for a chip of the array exactly that chip's select is low; and
\* the step that ends the transaction leaves no chip select low.
C34_OneChipSelect ==
    /\ [](booted => Cardinality(Selected(ads)) <= 1)
    /\ [](booted /\ ~(InTransfer \/ AtRelease) => Selected(ads) = {})
    /\ [](booted /\ (InTransfer \/ AtRelease) /\ L.chipIndex < ADS1220_NUM_CHIPS
             => Selected(ads) = {L.chipIndex})
    /\ [][ booted /\ AtRelease => Selected(ads') = {} /\ pc' = Tail(pc) ]_vars

\* the last chip of the array answers a register read, alone on the bus,
\* while another chip holds a configuration of its own
C34_Witness ==
    /\ booted /\ At("ReadRegister_Rx") /\ L.chipIndex = ADS1220_NUM_CHIPS - 1
    /\ Selected(ads) = {ADS1220_NUM_CHIPS - 1}
    /\ \E i \in Chips : ads.dev[i].reg0 /= ads.dev[ADS1220_NUM_CHIPS - 1].reg0

\* a conversion result is read from one chip inside ADS1220_ReadAllColumns
C34_WitnessReadData ==
    /\ booted /\ At("ReadData_Rx") /\ Selected(ads) = {L.chipIndex}
    /\ Len(pc) > 2 /\ pc[2] = "ReadAllColumns_Store"


\* a driver function runs with a chip index at or past ADS1220_NUM_CHIPS
OutOfRangeChip == booted /\ ~fault /\ pc /= << >> /\ L.chipIndex >= ADS1220_NUM_CHIPS

\* C35: no step of ADS1220_SetChannel, ADS1220_Configure, ADS1220_Reset or
\* ADS1220_ReadData called with chipIndex >= ADS1220_NUM_CHIPS asserts a chip
\* select, changes a cached configuration register of any chip or stores
\* behind the end of g_ADS1220; and ADS1220_SetChannel with channel >= 4
\* returns at once, writing no register.
C35_OutOfRangeChip ==
    /\ [][ OutOfRangeChip => /\ Selected(ads') = {}
                             /\ ads'.config_reg = ads.config_reg
                             /\ ads'.oob = ads.oob ]_vars
    /\ [][ At("ADS1220_SetChannel") /\ L.chan >= 4 => ads' = ads /\ pc' = Tail(pc) ]_vars

\* the part of C35 the code does keep: with a chip index at or past
\* ADS1220_NUM_CHIPS no chip select is asserted, no chip receives a command
\* or a register write, no cached register of a chip of the array changes,
\* and ADS1220_SetChannel with channel >= 4 returns at once
C35_NoSelectOutOfRange ==
    /\ [][ OutOfRangeChip => /\ Selected(ads') = {}
                             /\ ads'.dev = ads.dev
                             /\ ads'.config_reg = ads.config_reg ]_vars
    /\ [][ At("ADS1220_SetChannel") /\ L.chan >= 4 => ads' = ads /\ pc' = Tail(pc) ]_vars

\* ADS1220_WriteRegister has cached a value behind the end of the array
C35_StoreBehindArray == << "config_reg", ADS1220_NUM_CHIPS >> \in ads.oob

\* C36: ADS1220_Init stores chip-select assignments only in elements
\* g_ADS1220[i] with i < ADS1220_NUM_CHIPS.
C36_InitWithinArray == \A s \in ads.oob : s[1] /= "cs"


C37_WitnessDirect ==
    /\ At("GRID_Init_Tx") /\ booted /\ s_IsCalibrated /\ uart /= << >>
    /\ variant = "ADS24"


\* the loop of GRID_DelayUs is waiting for a delay whose tick count fits the counter
DelayWaiting == At("DelayUs_Wait") /\ L.us * TICKS_PER_US < CyccntModulus

\* the counter advanced by more ticks between two reads of the loop than the
\* interval in which the elapsed count, modulo the counter width, is at least
\* the delay
DelayOverrun == At("DelayUs_Wait") /\ L.sincePoll > CyccntModulus - L.delayTicks

\* the step in which GRID_DelayUs returns has seen the delay elapse
DelayElapsedAtReturn ==
    [][ DelayWaiting /\ pc' = Tail(pc) => L.elapsed >= L.us * TICKS_PER_US ]_vars

=============================================================================
